---- MODULE Spec2Model ----
(***************************************************************************)
(* Model of knm::vk::Application (knm_vulkan_tools.hpp): the run() control *)
(* path - window and Vulkan setup, the main loop, drawFrame, swap-chain    *)
(* recreation and shutdown - interleaved with the two things that run      *)
(* asynchronously to it: the GPU executing submitted work, and the window  *)
(* system changing the framebuffer size and queueing events.               *)
(***************************************************************************)
EXTENDS Integers, Sequences, FiniteSets, TLC

\* knm_vulkan_tools.hpp:990
MAX_NB_FRAMES_IN_FLIGHT == 2

\* Largest value the user's getNbCommandBuffers() returns in the model.
MaxNbCommandBuffers == 1

\* Largest framebuffer width/height the window system reports in the model.
MaxDim == 1

Slots == 0 .. (MAX_NB_FRAMES_IN_FLIGHT - 1)
Dims == 0 .. MaxDim

\* VkResult values the driver may return from acquire / submit / present.
VK_SUCCESS == "VK_SUCCESS"
VK_SUBOPTIMAL_KHR == "VK_SUBOPTIMAL_KHR"
VK_ERROR_OUT_OF_DATE_KHR == "VK_ERROR_OUT_OF_DATE_KHR"
VK_ERROR_DEVICE_LOST == "VK_ERROR_DEVICE_LOST"
SwapChainResults ==
    {VK_SUCCESS, VK_SUBOPTIMAL_KHR, VK_ERROR_OUT_OF_DATE_KHR, VK_ERROR_DEVICE_LOST}
SubmitResults == {VK_SUCCESS, VK_ERROR_DEVICE_LOST}
StaleCodes == {VK_ERROR_OUT_OF_DATE_KHR, VK_SUBOPTIMAL_KHR}

\* Largest number of physical devices vkEnumeratePhysicalDevices reports.
MaxDevices == 2

\* The debug build, whose constructor installs a debug callback.
enableValidationLayers == TRUE
debugCallback == TRUE

\* Vulkan API versions, as tiers: 1.0, 1.1, 1.2, 1.3.
VK_API_VERSION_1_0 == 0
VK_API_VERSION_1_1 == 1
VK_API_VERSION_1_2 == 2
VK_API_VERSION_1_3 == 3
ApiVersions ==
    {VK_API_VERSION_1_0, VK_API_VERSION_1_1, VK_API_VERSION_1_2, VK_API_VERSION_1_3}

\* One boolean member of each tier's feature structure (the first member the
\* comparison scans) stands for the members of the structure.
FeatureFlags ==
    [v \in ApiVersions |->
        CASE v = VK_API_VERSION_1_0 -> {"samplerAnisotropy"}
          [] v = VK_API_VERSION_1_1 -> {"storageBuffer16BitAccess"}
          [] v = VK_API_VERSION_1_2 -> {"samplerMirrorClampToEdge"}
          [] v = VK_API_VERSION_1_3 -> {"robustImageAccess"}]
AllFeatureFlags == UNION {FeatureFlags[v] : v \in ApiVersions}

\* A value of the chain of feature structures: the flags that are VK_TRUE.
FeatureSets == SUBSET AllFeatureFlags

VK_KHR_SWAPCHAIN_EXTENSION_NAME == "VK_KHR_swapchain"
VK_KHR_portability_subset == "VK_KHR_portability_subset"

\* config_t as the constructor leaves it.
DefaultConfig ==
    [vulkanVersion |-> VK_API_VERSION_1_3,
     deviceExtensions |-> {VK_KHR_SWAPCHAIN_EXTENSION_NAME},
     features |-> {"samplerAnisotropy"}]

\* The configurations an application may set before run().
Configs ==
    [vulkanVersion : ApiVersions,
     deviceExtensions : {{VK_KHR_SWAPCHAIN_EXTENSION_NAME}},
     features : FeatureSets]

\* Width in bits of the model's unsigned integers, which stand for uint32_t.
UintBits == 3
UINT32_MAX == 2 ^ UintBits - 1

\* Largest surface extent bound, and largest image count short of
\* UINT32_MAX, a surface reports in the model.
MaxExtent == 2
MaxImageCount == 2

VK_FORMAT_UNDEFINED == "VK_FORMAT_UNDEFINED"
VK_FORMAT_B8G8R8A8_SRGB == "VK_FORMAT_B8G8R8A8_SRGB"
VK_FORMAT_B8G8R8A8_UNORM == "VK_FORMAT_B8G8R8A8_UNORM"
VK_COLOR_SPACE_SRGB_NONLINEAR_KHR == "VK_COLOR_SPACE_SRGB_NONLINEAR_KHR"
VK_COLOR_SPACE_HDR10_ST2084_EXT == "VK_COLOR_SPACE_HDR10_ST2084_EXT"
VK_PRESENT_MODE_IMMEDIATE_KHR == "VK_PRESENT_MODE_IMMEDIATE_KHR"
VK_PRESENT_MODE_MAILBOX_KHR == "VK_PRESENT_MODE_MAILBOX_KHR"
VK_PRESENT_MODE_FIFO_KHR == "VK_PRESENT_MODE_FIFO_KHR"

VK_IMAGE_LAYOUT_UNDEFINED == "VK_IMAGE_LAYOUT_UNDEFINED"
VK_IMAGE_LAYOUT_GENERAL == "VK_IMAGE_LAYOUT_GENERAL"
VK_IMAGE_LAYOUT_TRANSFER_SRC_OPTIMAL == "VK_IMAGE_LAYOUT_TRANSFER_SRC_OPTIMAL"
VK_IMAGE_LAYOUT_TRANSFER_DST_OPTIMAL == "VK_IMAGE_LAYOUT_TRANSFER_DST_OPTIMAL"
VK_IMAGE_LAYOUT_SHADER_READ_ONLY_OPTIMAL == "VK_IMAGE_LAYOUT_SHADER_READ_ONLY_OPTIMAL"
ImageLayouts ==
    {VK_IMAGE_LAYOUT_UNDEFINED, VK_IMAGE_LAYOUT_GENERAL,
     VK_IMAGE_LAYOUT_TRANSFER_SRC_OPTIMAL, VK_IMAGE_LAYOUT_TRANSFER_DST_OPTIMAL,
     VK_IMAGE_LAYOUT_SHADER_READ_ONLY_OPTIMAL}

\* Largest number of mip levels of an image in the model.
MaxMipLevels == 2

\* The calls of the one-shot helpers an application may make: the helper,
\* the layouts and mip levels it is given, and whether the image format
\* supports linear blitting.
\* Largest number of memory types of a device in the model.
MaxMemoryTypes == 2

\* The property flags of a memory type, as the set of the bits that are set,
\* the memory types a device may report, and the requirements a buffer may
\* have: typeFilter is the bit mask itself.
MemoryPropertyFlags ==
    {"VK_MEMORY_PROPERTY_DEVICE_LOCAL_BIT", "VK_MEMORY_PROPERTY_HOST_VISIBLE_BIT"}
MemoryTypeLists == UNION {[1 .. k -> SUBSET MemoryPropertyFlags] : k \in 0 .. MaxMemoryTypes}
TypeFilters == 0 .. 2 ^ MaxMemoryTypes - 1

\* VkMemoryAllocateInfo allocInfo{}, with the inputs of findMemoryType.
AllocInfo(types, typeFilter, properties, index) ==
    [memoryTypes |-> types, memoryTypeBits |-> typeFilter, properties |-> properties,
     memoryTypeIndex |-> index]
NoAllocInfo == AllocInfo(<<>>, 0, {}, 0)

HelperCall(name, old, new, levels, blit) ==
    [name |-> name, oldLayout |-> old, newLayout |-> new, mipLevels |-> levels,
     linearBlit |-> blit]
NoHelperCall == HelperCall("", "", "", 0, FALSE)
HelperCalls ==
    {HelperCall("copyBuffer", "", "", 0, FALSE),
     HelperCall("copyBufferToImage", "", "", 0, FALSE)}
       \cup {HelperCall("transitionImageLayout", old, new, levels, FALSE) :
                old \in ImageLayouts, new \in ImageLayouts, levels \in 1 .. MaxMipLevels}
       \cup {HelperCall("generateMipmaps", "", "", levels, blit) :
                levels \in 1 .. MaxMipLevels, blit \in BOOLEAN}

SurfaceFormat(f, c) == [format |-> f, colorSpace |-> c]
Extent(w, h) == [width |-> w, height |-> h]

\* A queue family: does it take graphics commands, can it present to the surface.
GraphicsAndPresent == [graphics |-> TRUE, present |-> TRUE]
GraphicsOnly == [graphics |-> TRUE, present |-> FALSE]
PresentOnly == [graphics |-> FALSE, present |-> TRUE]
ComputeOnly == [graphics |-> FALSE, present |-> FALSE]

\* Largest number of queue families of a device in the model.
MaxQueueFamilies == 2

\* A device with everything any configuration may ask for.
GoodDevice ==
    [extensions |-> {VK_KHR_SWAPCHAIN_EXTENSION_NAME},
     queueFamilies |-> <<GraphicsAndPresent>>,
     formats |-> <<SurfaceFormat(VK_FORMAT_B8G8R8A8_SRGB,
                                 VK_COLOR_SPACE_SRGB_NONLINEAR_KHR)>>,
     presentationModes |-> <<VK_PRESENT_MODE_FIFO_KHR>>,
     minImageCount |-> 1, maxImageCount |-> 0,
     currentExtent |-> Extent(1, 1),
     minImageExtent |-> Extent(1, 1),
     maxImageExtent |-> Extent(1, 1),
     apiVersion |-> VK_API_VERSION_1_3,
     features |-> AllFeatureFlags]

\* What the driver may report of a device: its extensions, queue families,
\* surface formats and presentation modes (none, or those of GoodDevice) ...
DeviceShapes ==
    [extensions : SUBSET {VK_KHR_SWAPCHAIN_EXTENSION_NAME, VK_KHR_portability_subset},
     queueFamilies : {<<GraphicsAndPresent>>, <<GraphicsOnly>>, <<GraphicsOnly, PresentOnly>>},
     formats : {<<>>, GoodDevice.formats},
     presentationModes : {<<>>, GoodDevice.presentationModes},
     minImageCount : {GoodDevice.minImageCount},
     maxImageCount : {GoodDevice.maxImageCount},
     currentExtent : {GoodDevice.currentExtent},
     minImageExtent : {GoodDevice.minImageExtent},
     maxImageExtent : {GoodDevice.maxImageExtent},
     apiVersion : {GoodDevice.apiVersion},
     features : {GoodDevice.features}]

\* ... and its API version and supported features.
DeviceTiers ==
    [extensions : {GoodDevice.extensions},
     queueFamilies : {GoodDevice.queueFamilies},
     formats : {GoodDevice.formats},
     presentationModes : {GoodDevice.presentationModes},
     minImageCount : {GoodDevice.minImageCount},
     maxImageCount : {GoodDevice.maxImageCount},
     currentExtent : {GoodDevice.currentExtent},
     minImageExtent : {GoodDevice.minImageExtent},
     maxImageExtent : {GoodDevice.maxImageExtent},
     apiVersion : ApiVersions,
     features : FeatureSets]

\* An older device that suits the default configuration too, a device without
\* the swap-chain extension and one without any presentation mode.
OlderGoodDevice == [GoodDevice EXCEPT !.apiVersion = VK_API_VERSION_1_1]
DeviceWithoutSwapChain == [GoodDevice EXCEPT !.extensions = {}]
DeviceWithoutPresentationMode == [GoodDevice EXCEPT !.presentationModes = <<>>]
SomeDevices ==
    {GoodDevice, OlderGoodDevice, DeviceWithoutSwapChain, DeviceWithoutPresentationMode}

\* The surface format lists, presentation mode lists (FIFO is always
\* supported), image count limits (a minimum of at least 1, a maximum of 0 for
\* none or else at least the minimum) and extents (the current extent within
\* its bounds, or the uint32_t maximum twice with any bounds) a surface may
\* report.
FormatLists ==
    {<<SurfaceFormat(VK_FORMAT_B8G8R8A8_SRGB, VK_COLOR_SPACE_SRGB_NONLINEAR_KHR)>>,
     <<SurfaceFormat(VK_FORMAT_B8G8R8A8_UNORM, VK_COLOR_SPACE_SRGB_NONLINEAR_KHR)>>,
     <<SurfaceFormat(VK_FORMAT_B8G8R8A8_UNORM, VK_COLOR_SPACE_SRGB_NONLINEAR_KHR),
       SurfaceFormat(VK_FORMAT_B8G8R8A8_SRGB, VK_COLOR_SPACE_SRGB_NONLINEAR_KHR)>>,
     <<SurfaceFormat(VK_FORMAT_B8G8R8A8_SRGB, VK_COLOR_SPACE_HDR10_ST2084_EXT),
       SurfaceFormat(VK_FORMAT_B8G8R8A8_UNORM, VK_COLOR_SPACE_SRGB_NONLINEAR_KHR)>>}

PresentModeLists ==
    {<<VK_PRESENT_MODE_FIFO_KHR>>,
     <<VK_PRESENT_MODE_FIFO_KHR, VK_PRESENT_MODE_MAILBOX_KHR>>,
     <<VK_PRESENT_MODE_MAILBOX_KHR, VK_PRESENT_MODE_FIFO_KHR>>,
     <<VK_PRESENT_MODE_IMMEDIATE_KHR, VK_PRESENT_MODE_FIFO_KHR>>}

ImageCounts == (1 .. MaxImageCount) \cup {UINT32_MAX - 1, UINT32_MAX}
ImageCountLimits ==
    {l \in [minImageCount : ImageCounts, maxImageCount : {0} \cup ImageCounts] :
        l.maxImageCount = 0 \/ l.maxImageCount >= l.minImageCount}

ExtentBounds == {r \in (0 .. MaxExtent) \X (0 .. MaxExtent) : r[1] <= r[2]}
FixedExtents ==
    {[currentExtent |-> Extent(w, h), minImageExtent |-> Extent(w, h),
      maxImageExtent |-> Extent(w, h)] : w \in 0 .. MaxExtent, h \in 0 .. MaxExtent}
FreeExtents ==
    {[currentExtent |-> Extent(UINT32_MAX, UINT32_MAX),
      minImageExtent |-> Extent(w[1], h[1]),
      maxImageExtent |-> Extent(w[2], h[2])] : w \in ExtentBounds, h \in ExtentBounds}

\* GoodDevice with another format list, and with any other surface support.
FormatDevices == {[GoodDevice EXCEPT !.formats = f] : f \in FormatLists}
SurfaceDevices ==
    FormatDevices
       \cup {[GoodDevice EXCEPT !.presentationModes = m] : m \in PresentModeLists}
       \cup {[GoodDevice EXCEPT !.minImageCount = l.minImageCount,
                                !.maxImageCount = l.maxImageCount] : l \in ImageCountLimits}
       \cup {[GoodDevice EXCEPT !.currentExtent = e.currentExtent,
                                !.minImageExtent = e.minImageExtent,
                                !.maxImageExtent = e.maxImageExtent] :
                e \in FixedExtents \cup FreeExtents}

ListsOf(S, n) == UNION {[1 .. k -> S] : k \in 0 .. n}

\* GoodDevice with any other list of queue families.
QueueFamilyDevices ==
    {[GoodDevice EXCEPT !.queueFamilies = q] :
        q \in ListsOf({GraphicsAndPresent, GraphicsOnly, PresentOnly, ComputeOnly},
                      MaxQueueFamilies)}

\* The machines the whole run is explored on.
FewDeviceLists == {<<>>, <<DeviceWithoutSwapChain>>, <<GoodDevice>>}

\* The machines device selection is explored on: a single device of any
\* shape under the default configuration, a single device of any API version
\* and feature set under any configuration, and the lists of up to MaxDevices
\* devices of SomeDevices under the default configuration.
Machines ==
    {<<<<d>>, DefaultConfig>> : d \in DeviceShapes}
       \cup {<<<<d>>, c>> : d \in DeviceTiers, c \in Configs}
       \cup {<<l, DefaultConfig>> : l \in ListsOf(SomeDevices, MaxDevices)}
       \cup {<<<<d>>, DefaultConfig>> : d \in QueueFamilyDevices}

VARIABLES
    pc,                 \* position of the (single) CPU thread inside run()
    error,              \* what() of the exception that left run(), "" if none
    currentFrame,       \* Application::currentFrame
    framebufferResized, \* Application::framebufferResized
    inFlightFences,     \* slot -> TRUE iff the fence is signaled
    gpuQueue,           \* slots of the submissions the GPU has not completed, oldest first
    swapChain,          \* "null", "live" or "destroyed"
    commandBufferList,  \* size of Application::commandBufferList
    nbCommandBuffers,   \* mainLoop's local nbCommandBuffers
    width, height,      \* recreateSwapChain's locals
    rcCaller,           \* call site recreateSwapChain returns to
    fbWidth, fbHeight,  \* framebuffer size as the window system reports it
    events,             \* window events queued and not yet processed
    windowShouldClose,  \* the window's close flag
    calls,              \* calls made since the current loop iteration began
    fn,                 \* the function run() is in: initWindow, initVulkan, mainLoop, cleanup
    live,               \* object -> how many of it exist (created and not destroyed)
    swapChainImages,    \* size of Application::swapChainImages
    swapChainImageViews, \* Application::swapChainImageViews, 0 for VK_NULL_HANDLE
    liveViews,          \* the image views that exist
    config,             \* Application::config
    devices,            \* what vkEnumeratePhysicalDevices reports
    physicalDevice,     \* index in devices of Application::physicalDevice, 0 for VK_NULL_HANDLE
    queueCreateInfos,   \* createLogicalDevice's queueCreateInfos, as given to vkCreateDevice
    graphicsQueue,      \* family of Application::graphicsQueue, -1 for VK_NULL_HANDLE
    presentationQueue,  \* family of Application::presentationQueue, -1 for VK_NULL_HANDLE
    surfaceImageFormat, \* Application::surfaceImageFormat
    swapChainCreateInfo, \* createSwapChain's createInfo, as last given to vkCreateSwapchainKHR
    swapChainExtent,    \* Application::swapChainExtent
    imageViewFormat,    \* format createImageViews last gave to createImageView
    helperCall,         \* the one-shot helper being executed, and its arguments
    commandBuffer,      \* state of the helper's command buffer: none, recording, pending, freed
    recorded,           \* the commands recorded in it
    allocatedCommandBuffers, \* command buffers allocated from the pool and not freed
    allocInfo,          \* createBuffer's allocInfo, with what findMemoryType was given
    imageAvailableSemaphores, \* slot -> TRUE iff the semaphore is signaled or about to be
    renderFinishedSemaphores, \* slot -> TRUE iff the semaphore is signaled
    presentQueue,       \* slots of the presents queued whose semaphore wait has not executed
    presentationEngine  \* "immediate": a queued present executes its wait as soon as the
                        \* semaphore is signaled; "deferred": at any time after that

vars == <<pc, error, currentFrame, framebufferResized, inFlightFences, gpuQueue,
          swapChain, commandBufferList, nbCommandBuffers, width, height, rcCaller,
          fbWidth, fbHeight, events, windowShouldClose, calls,
          fn, live, swapChainImages, swapChainImageViews, liveViews,
          config, devices, physicalDevice,
          queueCreateInfos, graphicsQueue, presentationQueue,
          surfaceImageFormat, swapChainCreateInfo, swapChainExtent, imageViewFormat,
          helperCall, commandBuffer, recorded, allocatedCommandBuffers, allocInfo,
          imageAvailableSemaphores, renderFinishedSemaphores, presentQueue,
          presentationEngine>>

appVars == <<currentFrame, framebufferResized, inFlightFences, gpuQueue, swapChain,
             commandBufferList, nbCommandBuffers, width, height, rcCaller>>
envVars == <<fbWidth, fbHeight, events, windowShouldClose>>
objVars == <<fn, live, swapChainImages, swapChainImageViews, liveViews>>
devVars == <<config, devices, physicalDevice>>
queueVars == <<queueCreateInfos, graphicsQueue, presentationQueue>>
chainVars == <<swapChainCreateInfo, swapChainExtent>>
cmdVars == <<helperCall, commandBuffer, recorded, allocatedCommandBuffers>>
memVars == <<allocInfo>>
syncVars == <<imageAvailableSemaphores, renderFinishedSemaphores, presentQueue,
              presentationEngine>>
restVars == <<queueVars, surfaceImageFormat, chainVars, imageViewFormat, cmdVars, memVars>>
auxVars == <<restVars, syncVars>>

----------------------------------------------------------------------------
(* The log of calls of one loop iteration.                                 *)

Range(q) == {q[i] : i \in DOMAIN q}

NoSync == {}
ImageAvailable(i) == <<"imageAvailableSemaphores", i>>
RenderFinished(i) == <<"renderFinishedSemaphores", i>>
InFlightFence(i) == <<"inFlightFences", i>>

Call(op, res, wait, signal, reset) ==
    [op |-> op, res |-> res, frame |-> currentFrame,
     wait |-> wait, signal |-> signal, reset |-> reset]

Log(c) == calls' = Append(calls, c)

\* Mutant: run() catches the exception and shuts down as after the main loop
\* before it throws it again.
Throw_ThenCleanup(msg) == pc' = "mainLoopWaitIdle" /\ error' = msg

\* throw std::runtime_error(msg), which nothing in run() catches.
Throw(msg) == pc' = "thrown" /\ error' = msg

----------------------------------------------------------------------------
(* Decisions the code takes, as operators.                                 *)

\* Mutant: the fences are created unsignaled.
createSyncObjects_Unsignaled == [i \in Slots |-> FALSE]

\* createSyncObjects: every fence is created with VK_FENCE_CREATE_SIGNALED_BIT.
createSyncObjects == [i \in Slots |-> TRUE]

\* Mutant: the image is acquired before the fence of the slot is waited for.
DrawFrameOrder_AcquireBeforeWait ==
    <<"vkAcquireNextImageKHR", "vkWaitForFences", "vkResetFences", "getCommandBuffers",
      "vkQueueSubmit", "vkQueuePresentKHR", "advance">>

\* Mutant: the fence is reset before the image is acquired.
DrawFrameOrder_ResetBeforeAcquire ==
    <<"vkWaitForFences", "vkResetFences", "vkAcquireNextImageKHR",
      "getCommandBuffers", "vkQueueSubmit", "vkQueuePresentKHR", "advance">>

\* The steps of drawFrame, in the order the code performs them.
DrawFrameOrder ==
    <<"vkWaitForFences", "vkAcquireNextImageKHR", "vkResetFences",
      "getCommandBuffers", "vkQueueSubmit", "vkQueuePresentKHR", "advance">>

StepIndex(step) == CHOOSE i \in 1 .. Len(DrawFrameOrder) : DrawFrameOrder[i] = step

StepAfter(step) == DrawFrameOrder[StepIndex(step) + 1]

\* Mutant: drawFrame does not wait for the fence.
FenceWaitReturns_NoWait(i) == TRUE

\* vkWaitForFences(..., UINT64_MAX) returns once the fence is signaled.
FenceWaitReturns(i) == inFlightFences[i]

\* Mutant: drawFrame is called whatever the count.
ShouldDraw_Always(nb) == nb >= 0

\* Mutant: the list keeps its size.
ResizeCommandBufferList_Never(size, nb) == size

\* mainLoop: if (nbCommandBuffers != commandBufferList.size())
\*               commandBufferList.resize(nbCommandBuffers);
ResizeCommandBufferList(size, nb) == IF nb # size THEN nb ELSE size

\* mainLoop: if (nbCommandBuffers > 0) drawFrame(elapsed);
ShouldDraw(nb) == nb > 0

\* vkAcquireNextImageKHR(..., UINT64_MAX, ...) returns once the presentation
\* engine has an image to give: one that is not queued for presentation.
AcquireReturns ==
    presentationEngine = "immediate" \/ Len(presentQueue) < swapChainImages

\* The results with which vkAcquireNextImageKHR has acquired an image, and so
\* signals imageAvailableSemaphores[currentFrame].
AcquireSignals(result) == result \in {VK_SUCCESS, VK_SUBOPTIMAL_KHR}

\* Mutant: a suboptimal acquire is taken for a failure.
AcquireOutcome_ThrowOnSuboptimal(result) ==
    IF result = VK_ERROR_OUT_OF_DATE_KHR THEN "recreate"
    ELSE IF result # VK_SUCCESS THEN "throw"
    ELSE "continue"

\* drawFrame, after vkAcquireNextImageKHR.
AcquireOutcome(result) ==
    IF result = VK_ERROR_OUT_OF_DATE_KHR THEN "recreate"
    ELSE IF result # VK_SUCCESS /\ result # VK_SUBOPTIMAL_KHR THEN "throw"
    ELSE "continue"

\* Mutant: the result of vkQueueSubmit is not checked.
SubmitOutcome_Unchecked(result) == "continue"

\* drawFrame, after vkQueueSubmit.
SubmitOutcome(result) == IF result # VK_SUCCESS THEN "throw" ELSE "continue"

\* Mutant: a suboptimal present does not trigger the recreation.
PresentOutcome_IgnoreSuboptimal(result, resized) ==
    IF result = VK_ERROR_OUT_OF_DATE_KHR \/ resized THEN "recreate"
    ELSE IF result # VK_SUCCESS /\ result # VK_SUBOPTIMAL_KHR THEN "throw"
    ELSE "continue"

\* Mutant: the resize flag is not looked at after the present.
PresentOutcome_IgnoreResized(result, resized) ==
    IF result = VK_ERROR_OUT_OF_DATE_KHR \/ result = VK_SUBOPTIMAL_KHR THEN "recreate"
    ELSE IF result # VK_SUCCESS THEN "throw"
    ELSE "continue"

\* drawFrame, after vkQueuePresentKHR.
PresentOutcome(result, resized) ==
    IF result = VK_ERROR_OUT_OF_DATE_KHR \/ result = VK_SUBOPTIMAL_KHR \/ resized
    THEN "recreate"
    ELSE IF result # VK_SUCCESS THEN "throw"
    ELSE "continue"

\* Mutant: the slot number is not wrapped.
NextFrame_NoWrap(f) == f + 1

\* currentFrame = (currentFrame + 1) % MAX_NB_FRAMES_IN_FLIGHT
NextFrame(f) == (f + 1) % MAX_NB_FRAMES_IN_FLIGHT

\* recreateSwapChain: while ((width == 0) || (height == 0))
SizeIsZero(w, h) == (w = 0) \/ (h = 0)

\* Mutant: the acquire branch lacks its return, drawFrame goes on.
RecreateReturn_NoReturn(caller) == StepAfter(caller)

\* Mutant: the present branch returns too, skipping the advance.
RecreateReturn_AlwaysReturn(caller) == "mainLoop"

\* Where control goes when recreateSwapChain returns: the acquire branch
\* returns from drawFrame, the present branch falls through to the advance.
RecreateReturn(caller) ==
    IF caller = "vkAcquireNextImageKHR" THEN "mainLoop"
    ELSE StepAfter("vkQueuePresentKHR")

\* glfwPollEvents / glfwWaitEvents run the callbacks of the queued events:
\* onFramebufferWindowResized sets framebufferResized, a close request sets
\* the window's close flag.
\* Mutant: any event sets the flag.
onFramebufferWindowResized_AnyEvent(flag, evs) == flag \/ evs # {}

\* Mutant: processing events without a resize among them clears the flag.
onFramebufferWindowResized_Overwrite(flag, evs) == "resize" \in evs

onFramebufferWindowResized(flag, evs) == flag \/ ("resize" \in evs)

ProcessEvents ==
    /\ framebufferResized' = onFramebufferWindowResized(framebufferResized, events)
    /\ windowShouldClose' = (windowShouldClose \/ ("close" \in events))
    /\ events' = {}

\* Mutant: createVulkanObjects is called last, once the swap chain is ready.
initVulkanSteps_ObjectsLast ==
    <<"createInstance", "setupDebugMessenger", "createSurface",
      "pickPhysicalDevice", "createLogicalDevice", "createSyncObjects",
      "createSwapChain", "createImageViews", "onSwapChainReady",
      "createVulkanObjects">>

\* initVulkan(), in the order of its calls.
initVulkanSteps ==
    <<"createInstance", "setupDebugMessenger", "createSurface",
      "pickPhysicalDevice", "createLogicalDevice", "createSyncObjects",
      "createVulkanObjects",
      "createSwapChain", "createImageViews", "onSwapChainReady">>

\* Mutant: the chain is torn down without telling the application.
cleanupSwapChainSteps_NoNotification ==
    <<"vkDestroyImageView", "vkDestroySwapchainKHR">>

\* Mutant: the chain is destroyed with its image views left alone.
cleanupSwapChainSteps_ViewsKept ==
    <<"onSwapChainAboutToBeDestroyed", "vkDestroySwapchainKHR">>

\* cleanupSwapChain(), in the order of its calls.
cleanupSwapChainSteps ==
    <<"onSwapChainAboutToBeDestroyed", "vkDestroyImageView", "vkDestroySwapchainKHR">>

\* Mutant: the teardown starts without waiting for the device to be idle.
recreateSwapChainSteps_NoWaitIdle ==
    <<"onSwapChainAboutToBeDestroyed", "vkDestroyImageView", "vkDestroySwapchainKHR",
      "createSwapChain", "createImageViews", "onSwapChainReady">>

\* recreateSwapChain() once the framebuffer has a size, in the order of its calls.
recreateSwapChainSteps ==
    <<"vkDeviceWaitIdle">> \o cleanupSwapChainSteps
       \o <<"createSwapChain", "createImageViews", "onSwapChainReady">>

\* Mutant: the device is destroyed before the semaphores and fences.
cleanupSteps_DeviceBeforeSyncObjects ==
    cleanupSwapChainSteps
       \o <<"destroyVulkanObjects", "vkDestroyDevice", "destroySyncObjects",
            "vkDestroyDebugUtilsMessengerEXT", "vkDestroySurfaceKHR",
            "vkDestroyInstance", "glfwDestroyWindow">>

\* cleanup(), in the order of its calls.
cleanupSteps ==
    cleanupSwapChainSteps
       \o <<"destroyVulkanObjects", "destroySyncObjects", "vkDestroyDevice",
            "vkDestroyDebugUtilsMessengerEXT", "vkDestroySurfaceKHR",
            "vkDestroyInstance", "glfwDestroyWindow">>

StepsOf(f) ==
    CASE f = "initVulkan" -> initVulkanSteps
      [] f = "cleanup" -> cleanupSteps
      [] OTHER -> recreateSwapChainSteps

\* The step that follows `step` in the function being run, "return" after
\* the last one.
NextStep(step) ==
    LET steps == StepsOf(fn)
        i == CHOOSE k \in DOMAIN steps : steps[k] = step
    IN  IF i < Len(steps) THEN steps[i + 1] ELSE "return"

\* Where control goes when the function being run returns: initVulkan to
\* mainLoop, cleanup to the end of run(), recreateSwapChain to its caller.
ReturnTo ==
    CASE fn = "initVulkan" -> "mainLoop"
      [] fn = "cleanup" -> "done"
      [] OTHER -> RecreateReturn(rcCaller)

Goto(step) ==
    /\ pc' = IF NextStep(step) = "return" THEN ReturnTo ELSE NextStep(step)
    /\ fn' = IF NextStep(step) = "return" /\ fn = "initVulkan" THEN "mainLoop" ELSE fn

\* The objects run() creates and destroys, the swap chain and its image
\* views apart.
Objects ==
    {"window", "instance", "debugMessenger", "surface", "device", "syncObjects",
     "userObjects", "swapChainUserObjects"}

CreateObject(o) == live' = [live EXCEPT ![o] = @ + 1]
DestroyObject(o) == live' = [live EXCEPT ![o] = @ - 1]

\* Mutant: one image more than the chain before had.
ImageCount_OneMoreThanBefore(device) == swapChainImages + 1

\* createSwapChain: one image more than the minimum (in uint32_t arithmetic),
\* capped by the maximum when the surface has one (maxImageCount > 0).
ImageCount(device) ==
    LET imageCount == (device.minImageCount + 1) % (UINT32_MAX + 1)
    IN  IF device.maxImageCount > 0 /\ imageCount > device.maxImageCount
        THEN device.maxImageCount
        ELSE imageCount

\* chooseSwapSurfaceFormat: the first B8G8R8A8_SRGB format in the sRGB
\* non-linear colour space, else the first format of the list.
RECURSIVE chooseSwapSurfaceFormatFrom(_, _)
chooseSwapSurfaceFormatFrom(availableFormats, i) ==
    IF i > Len(availableFormats) THEN availableFormats[1]
    ELSE IF /\ availableFormats[i].format = VK_FORMAT_B8G8R8A8_SRGB
            /\ availableFormats[i].colorSpace = VK_COLOR_SPACE_SRGB_NONLINEAR_KHR
    THEN availableFormats[i]
    ELSE chooseSwapSurfaceFormatFrom(availableFormats, i + 1)

chooseSwapSurfaceFormat(availableFormats) ==
    chooseSwapSurfaceFormatFrom(availableFormats, 1)

\* Mutant: the first mode of the list.
chooseSwapPresentationMode_First(availablePresentModes) ==
    availablePresentModes[1]

\* chooseSwapPresentationMode: mailbox if it is in the list, else FIFO.
chooseSwapPresentationMode(availablePresentModes) ==
    IF \E i \in DOMAIN availablePresentModes :
          availablePresentModes[i] = VK_PRESENT_MODE_MAILBOX_KHR
    THEN VK_PRESENT_MODE_MAILBOX_KHR
    ELSE VK_PRESENT_MODE_FIFO_KHR

\* std::clamp(v, lo, hi)
clamp(v, lo, hi) == IF v < lo THEN lo ELSE IF hi < v THEN hi ELSE v

\* Mutant: only the upper bound is applied.
chooseSwapExtent_NoLowerBound(capabilities, w, h) ==
    IF capabilities.currentExtent.width # UINT32_MAX
    THEN capabilities.currentExtent
    ELSE Extent(clamp(w % (UINT32_MAX + 1), 0, capabilities.maxImageExtent.width),
                clamp(h % (UINT32_MAX + 1), 0, capabilities.maxImageExtent.height))

\* chooseSwapExtent, w and h being what glfwGetFramebufferSize reports: the
\* current extent unless its width is the uint32_t maximum, else the
\* framebuffer size clamped to the extent bounds.
chooseSwapExtent(capabilities, w, h) ==
    IF capabilities.currentExtent.width # UINT32_MAX
    THEN capabilities.currentExtent
    ELSE Extent(clamp(w % (UINT32_MAX + 1), capabilities.minImageExtent.width,
                      capabilities.maxImageExtent.width),
                clamp(h % (UINT32_MAX + 1), capabilities.minImageExtent.height,
                      capabilities.maxImageExtent.height))

\* createImageViews: swapChainImageViews.resize(swapChainImages.size())
Resize(v, n) == [i \in 1 .. n |-> IF i <= Len(v) THEN v[i] ELSE 0]

----------------------------------------------------------------------------
(* Device selection                                                        *)

\* knm_vulkan_tools.hpp:264, 267
GRAPHICS_QUEUE_FAMILY == 0
PRESENTATION_QUEUE_FAMILY == 1

\* queueFamilyIndices_t::nbRequiredFamilies
nbRequiredFamilies == 2

\* indices.families[id] = i
Put(families, id, i) ==
    [k \in DOMAIN families \cup {id} |-> IF k = id THEN i ELSE families[k]]

\* Mutant: one assigned role is enough.
isComplete_AnyRole(families) == Cardinality(DOMAIN families) >= 1

\* queueFamilyIndices_t::isComplete
isComplete(families) == Cardinality(DOMAIN families) = nbRequiredFamilies

\* The loop of findQueueFamilies, from family i on.
RECURSIVE ScanQueueFamilies(_, _, _)
ScanQueueFamilies(queueFamilies, i, families) ==
    IF i >= Len(queueFamilies) THEN families
    ELSE LET g == IF queueFamilies[i + 1].graphics
                  THEN Put(families, GRAPHICS_QUEUE_FAMILY, i) ELSE families
             p == IF queueFamilies[i + 1].present
                  THEN Put(g, PRESENTATION_QUEUE_FAMILY, i) ELSE g
         IN  IF isComplete(p) THEN p ELSE ScanQueueFamilies(queueFamilies, i + 1, p)

findQueueFamilies(device) == ScanQueueFamilies(device.queueFamilies, 0, <<>>)

QueueCreateInfo(queueFamily) == [queueFamilyIndex |-> queueFamily, queueCount |-> 1]

\* Mutant: one entry per role, graphics then presentation.
QueueCreateInfos_PerRole(indices) ==
    <<QueueCreateInfo(indices[GRAPHICS_QUEUE_FAMILY]),
      QueueCreateInfo(indices[PRESENTATION_QUEUE_FAMILY])>>

\* createLogicalDevice: one entry per element of the std::set of the two
\* family indices, in ascending order.
QueueCreateInfos(indices) ==
    LET g == indices[GRAPHICS_QUEUE_FAMILY]
        p == indices[PRESENTATION_QUEUE_FAMILY]
    IN  IF g = p THEN <<QueueCreateInfo(g)>>
        ELSE IF g < p THEN <<QueueCreateInfo(g), QueueCreateInfo(p)>>
        ELSE <<QueueCreateInfo(p), QueueCreateInfo(g)>>

VK_SHARING_MODE_EXCLUSIVE == "VK_SHARING_MODE_EXCLUSIVE"
VK_SHARING_MODE_CONCURRENT == "VK_SHARING_MODE_CONCURRENT"

\* Mutant: the images are never shared.
ImageSharing_AlwaysExclusive(indices) ==
    [imageSharingMode |-> VK_SHARING_MODE_EXCLUSIVE, queueFamilyIndexCount |-> 0,
     pQueueFamilyIndices |-> <<>>]

\* createSwapChain: how the images are shared between the queue families
\* (pQueueFamilyIndices is <<>> for nullptr).
ImageSharing(indices) ==
    IF indices[GRAPHICS_QUEUE_FAMILY] # indices[PRESENTATION_QUEUE_FAMILY]
    THEN [imageSharingMode |-> VK_SHARING_MODE_CONCURRENT, queueFamilyIndexCount |-> 2,
          pQueueFamilyIndices |-> <<indices[GRAPHICS_QUEUE_FAMILY],
                                    indices[PRESENTATION_QUEUE_FAMILY]>>]
    ELSE [imageSharingMode |-> VK_SHARING_MODE_EXCLUSIVE, queueFamilyIndexCount |-> 0,
          pQueueFamilyIndices |-> <<>>]

\* VkSwapchainCreateInfoKHR createInfo{}, and the one createSwapChain fills
\* for a device and a framebuffer size.
NoCreateInfo ==
    [minImageCount |-> 0, imageFormat |-> VK_FORMAT_UNDEFINED, imageColorSpace |-> "",
     imageExtent |-> Extent(0, 0), presentMode |-> "",
     imageSharingMode |-> VK_SHARING_MODE_EXCLUSIVE, queueFamilyIndexCount |-> 0,
     pQueueFamilyIndices |-> <<>>]

CreateInfo(device, w, h) ==
    LET surfaceFormat == chooseSwapSurfaceFormat(device.formats)
        sharing == ImageSharing(findQueueFamilies(device))
    IN  [minImageCount |-> ImageCount(device),
         imageFormat |-> surfaceFormat.format,
         imageColorSpace |-> surfaceFormat.colorSpace,
         imageExtent |-> chooseSwapExtent(device, w, h),
         presentMode |-> chooseSwapPresentationMode(device.presentationModes),
         imageSharingMode |-> sharing.imageSharingMode,
         queueFamilyIndexCount |-> sharing.queueFamilyIndexCount,
         pQueueFamilyIndices |-> sharing.pQueueFamilyIndices]

\* config.deviceExtensions, plus VK_KHR_portability_subset when the device has it.
getRequiredDeviceExtensions(device, cfg) ==
    cfg.deviceExtensions
       \cup (IF VK_KHR_portability_subset \in device.extensions
             THEN {VK_KHR_portability_subset} ELSE {})

\* Mutant: one available extension is enough.
checkDeviceExtensionSupport_Any(device, cfg) ==
    device.extensions # {}

\* The required extensions, less the available ones, leave nothing.
checkDeviceExtensionSupport(device, cfg) ==
    getRequiredDeviceExtensions(device, cfg) \ device.extensions = {}

\* Mutant: a tier the device is too old for fails, required flags or not.
compareFeatures_VersionFirst(required, supported, apiVersionSupported) ==
    apiVersionSupported /\ \A f \in required : f \in supported

\* if (required_bool[i] && (!supported_bool[i] || !apiVersionSupported)) return false;
compareFeatures(required, supported, apiVersionSupported) ==
    \A f \in required : ~(f \notin supported \/ ~apiVersionSupported)

\* The tiers isDeviceSuitable compares: with config.vulkanVersion at 1.0 the
\* 1.0 features only, all of them otherwise.
ComparedTiers(cfg) ==
    IF cfg.vulkanVersion = VK_API_VERSION_1_0 THEN {VK_API_VERSION_1_0}
    ELSE ApiVersions

isDeviceSuitable(device, cfg) ==
    LET indices == findQueueFamilies(device)
        extensionsSupported == checkDeviceExtensionSupport(device, cfg)
        swapChainAdequate ==
            IF extensionsSupported
            THEN device.formats # <<>> /\ device.presentationModes # <<>>
            ELSE FALSE
    IN  IF ~isComplete(indices) \/ ~extensionsSupported \/ ~swapChainAdequate
        THEN FALSE
        ELSE \A v \in ComparedTiers(cfg) :
                compareFeatures(cfg.features \cap FeatureFlags[v],
                                device.features \cap FeatureFlags[v],
                                IF v = VK_API_VERSION_1_0 THEN TRUE
                                ELSE device.apiVersion >= v)

\* Mutant: the loop has no break, the last suitable device stays selected.
RECURSIVE FirstSuitable_NoBreak(_, _, _)
FirstSuitable_NoBreak(devs, cfg, i) ==
    IF i > Len(devs) THEN 0
    ELSE LET later == FirstSuitable_NoBreak(devs, cfg, i + 1)
         IN  IF later # 0 THEN later
             ELSE IF isDeviceSuitable(devs[i], cfg) THEN i ELSE 0

\* The loop of pickPhysicalDevice, from device i on: the index of the device
\* it selects, 0 if it leaves physicalDevice at VK_NULL_HANDLE.
RECURSIVE FirstSuitable(_, _, _)
FirstSuitable(devs, cfg, i) ==
    IF i > Len(devs) THEN 0
    ELSE IF isDeviceSuitable(devs[i], cfg) THEN i
    ELSE FirstSuitable(devs, cfg, i + 1)

----------------------------------------------------------------------------
\* The state run() starts in, on a machine with the given devices and for an
\* application with the given configuration.
BootWith(devs, cfg, engine) ==
    /\ pc = "run"
    /\ error = ""
    /\ currentFrame = 0
    /\ framebufferResized = FALSE
    /\ inFlightFences = [i \in Slots |-> FALSE]
    /\ gpuQueue = <<>>
    /\ swapChain = "null"
    /\ commandBufferList = 0
    /\ nbCommandBuffers = 0
    /\ width = 0
    /\ height = 0
    /\ rcCaller = ""
    /\ fbWidth = 0
    /\ fbHeight = 0
    /\ events = {}
    /\ windowShouldClose = FALSE
    /\ calls = <<>>
    /\ fn = "initWindow"
    /\ live = [o \in Objects |-> 0]
    /\ swapChainImages = 0
    /\ swapChainImageViews = <<>>
    /\ liveViews = {}
    /\ config = cfg
    /\ devices = devs
    /\ physicalDevice = 0
    /\ queueCreateInfos = <<>>
    /\ graphicsQueue = -1
    /\ presentationQueue = -1
    /\ surfaceImageFormat = VK_FORMAT_UNDEFINED
    /\ swapChainCreateInfo = NoCreateInfo
    /\ swapChainExtent = Extent(0, 0)
    /\ imageViewFormat = VK_FORMAT_UNDEFINED
    /\ helperCall = NoHelperCall
    /\ commandBuffer = "none"
    /\ recorded = <<>>
    /\ allocatedCommandBuffers = 0
    /\ allocInfo = NoAllocInfo
    /\ imageAvailableSemaphores = [i \in Slots |-> FALSE]
    /\ renderFinishedSemaphores = [i \in Slots |-> FALSE]
    /\ presentQueue = <<>>
    /\ presentationEngine = engine

\* The machines of the other specifications have an immediate presentation
\* engine.
Boot(devs, cfg) == BootWith(devs, cfg, "immediate")

Init == \E devs \in FewDeviceLists : Boot(devs, DefaultConfig)

\* run(): initWindow() creates the window with the configured (non-zero)
\* size; initVulkan() is entered.
initWindow ==
    /\ pc = "run"
    /\ pc' = initVulkanSteps[1]
    /\ fn' = "initVulkan"
    /\ CreateObject("window")
    /\ \E w \in Dims \ {0}, h \in Dims \ {0} : fbWidth' = w /\ fbHeight' = h
    /\ UNCHANGED <<error, appVars, events, windowShouldClose, calls,
                   swapChainImages, swapChainImageViews, liveViews, devVars, auxVars>>

----------------------------------------------------------------------------
(* initVulkan                                                              *)

\* A step that creates one object, or throws when the creation fails.
CreateStep(step, o, msg) ==
    /\ pc = step
    /\ \/ /\ CreateObject(o)
          /\ Log(Call(step, VK_SUCCESS, NoSync, NoSync, NoSync))
          /\ Goto(step)
          /\ error' = error
       \/ /\ Log(Call(step, VK_ERROR_DEVICE_LOST, NoSync, NoSync, NoSync))
          /\ Throw(msg)
          /\ UNCHANGED <<fn, live>>

\* A step that destroys one object.
DestroyStep(step, o) ==
    /\ pc = step
    /\ DestroyObject(o)
    /\ Log(Call(step, "", NoSync, NoSync, NoSync))
    /\ Goto(step)

\* vkCreateInstance
createInstance ==
    /\ CreateStep("createInstance", "instance", "Failed to create instance!")
    /\ UNCHANGED <<appVars, envVars, swapChainImages, swapChainImageViews, liveViews,
                   devVars, auxVars>>

\* setupDebugMessenger: nothing to do without validation layers or callback.
setupDebugMessenger ==
    /\ IF enableValidationLayers /\ debugCallback
       THEN CreateStep("setupDebugMessenger", "debugMessenger",
                       "Failed to set up debug messenger!")
       ELSE /\ pc = "setupDebugMessenger"
            /\ Goto("setupDebugMessenger")
            /\ UNCHANGED <<error, live, calls>>
    /\ UNCHANGED <<appVars, envVars, swapChainImages, swapChainImageViews, liveViews,
                   devVars, auxVars>>

\* glfwCreateWindowSurface
createSurface ==
    /\ CreateStep("createSurface", "surface", "Failed to create window surface!")
    /\ UNCHANGED <<appVars, envVars, swapChainImages, swapChainImageViews, liveViews,
                   devVars, auxVars>>

\* pickPhysicalDevice: the first suitable device of the enumeration, or a
\* throw; the format of the surface format chosen for it is stored.
pickPhysicalDevice ==
    /\ pc = "pickPhysicalDevice"
    /\ physicalDevice' = FirstSuitable(devices, config, 1)
    /\ Log(Call("pickPhysicalDevice", "", NoSync, NoSync, NoSync))
    /\ IF Len(devices) = 0
       THEN Throw("Failed to find GPUs with Vulkan support!")
            /\ UNCHANGED <<fn, surfaceImageFormat, syncVars>>
       ELSE IF physicalDevice' = 0
       THEN Throw("Failed to find a suitable GPU!")
            /\ UNCHANGED <<fn, surfaceImageFormat, syncVars>>
       ELSE /\ surfaceImageFormat' =
                  chooseSwapSurfaceFormat(devices[physicalDevice'].formats).format
            /\ Goto("pickPhysicalDevice")
            /\ error' = error
    /\ UNCHANGED <<appVars, envVars, live, swapChainImages, swapChainImageViews,
                   liveViews, config, devices, queueVars, chainVars, imageViewFormat,
                   cmdVars, memVars, syncVars>>

\* createLogicalDevice: the queue requests, vkCreateDevice, and the
\* retrieval of the two queues.
createLogicalDevice ==
    /\ CreateStep("createLogicalDevice", "device", "Failed to create logical device!")
    /\ LET indices == findQueueFamilies(devices[physicalDevice])
       IN  /\ queueCreateInfos' = QueueCreateInfos(indices)
           /\ IF pc' = "thrown"
              THEN UNCHANGED <<graphicsQueue, presentationQueue>>
              ELSE /\ graphicsQueue' = indices[GRAPHICS_QUEUE_FAMILY]
                   /\ presentationQueue' = indices[PRESENTATION_QUEUE_FAMILY]
    /\ UNCHANGED <<appVars, envVars, swapChainImages, swapChainImageViews, liveViews,
                   devVars, surfaceImageFormat, chainVars, imageViewFormat, cmdVars, memVars,
                   syncVars>>

\* createSyncObjects: two semaphores and a signaled fence per slot.
createSyncObjectsCall ==
    /\ CreateStep("createSyncObjects", "syncObjects",
                  "Failed to create synchronization objects for a frame!")
    /\ inFlightFences' = IF pc' = "thrown" THEN inFlightFences ELSE createSyncObjects
    /\ UNCHANGED <<currentFrame, framebufferResized, gpuQueue, swapChain,
                   commandBufferList, nbCommandBuffers, width, height, rcCaller,
                   envVars, swapChainImages, swapChainImageViews, liveViews, devVars, auxVars>>

\* The user's createVulkanObjects().
createVulkanObjects ==
    /\ pc = "createVulkanObjects"
    /\ CreateObject("userObjects")
    /\ Log(Call("createVulkanObjects", "", NoSync, NoSync, NoSync))
    /\ Goto("createVulkanObjects")
    /\ UNCHANGED <<error, appVars, envVars, swapChainImages, swapChainImageViews,
                   liveViews, devVars, auxVars>>

----------------------------------------------------------------------------
(* createBuffer and findMemoryType, as the user's createVulkanObjects()    *)
(* calls them.                                                             *)

\* Mutant: the filter is not looked at.
HasBit_Any(typeFilter, i) == TRUE

\* typeFilter & (1 << i)
HasBit(typeFilter, i) == (typeFilter \div (2 ^ i)) % 2 = 1

\* The loop of findMemoryType, from type i on; -1 when it ends without a
\* return.
RECURSIVE ScanMemoryTypes(_, _, _, _)
ScanMemoryTypes(memoryTypes, typeFilter, properties, i) ==
    IF i >= Len(memoryTypes) THEN -1
    ELSE IF HasBit(typeFilter, i) /\ (memoryTypes[i + 1] \cap properties) = properties
    THEN i
    ELSE ScanMemoryTypes(memoryTypes, typeFilter, properties, i + 1)

findMemoryType(memoryTypes, typeFilter, properties) ==
    ScanMemoryTypes(memoryTypes, typeFilter, properties, 0)

\* createBuffer: vkCreateBuffer, the memory requirements of the buffer,
\* findMemoryType, vkAllocateMemory and vkBindBufferMemory. The model's
\* application creates one buffer.
createBuffer ==
    /\ pc = "createVulkanObjects"
    /\ allocInfo = NoAllocInfo
    /\ \/ /\ Throw("Failed to create buffer!")
          /\ UNCHANGED allocInfo
       \/ \E types \in MemoryTypeLists, typeFilter \in TypeFilters,
             properties \in SUBSET MemoryPropertyFlags :
             LET index == findMemoryType(types, typeFilter, properties)
             IN  IF index = -1
                 THEN /\ allocInfo' = AllocInfo(types, typeFilter, properties, 0)
                      /\ Throw("Failed to find suitable memory type!")
                 ELSE /\ allocInfo' = AllocInfo(types, typeFilter, properties, index)
                      /\ \/ Throw("Failed to allocate buffer memory!")
                         \/ UNCHANGED <<pc, error>>
    /\ UNCHANGED <<appVars, envVars, objVars, devVars, queueVars, surfaceImageFormat,
                   chainVars, imageViewFormat, cmdVars, calls, syncVars>>

----------------------------------------------------------------------------
(* The one-shot command helpers, as the user's createVulkanObjects() calls *)
(* them.                                                                   *)

Command(cmd, old, new) == [cmd |-> cmd, oldLayout |-> old, newLayout |-> new]
Barrier(old, new) == Command("vkCmdPipelineBarrier", old, new)
Recording(commands, msg) == [commands |-> commands, error |-> msg]

\* Mutant: a pair that is not recognised gets a barrier too.
recordTransitionImageLayoutCommand_NoThrow(oldLayout, newLayout) ==
    Recording(<<Barrier(oldLayout, newLayout)>>, "")

\* recordTransitionImageLayoutCommand: what it records, and the what() of
\* the exception it throws ("" if none).
recordTransitionImageLayoutCommand(oldLayout, newLayout) ==
    IF \/ /\ oldLayout = VK_IMAGE_LAYOUT_UNDEFINED
          /\ newLayout = VK_IMAGE_LAYOUT_TRANSFER_DST_OPTIMAL
       \/ /\ oldLayout = VK_IMAGE_LAYOUT_TRANSFER_DST_OPTIMAL
          /\ newLayout = VK_IMAGE_LAYOUT_SHADER_READ_ONLY_OPTIMAL
    THEN Recording(<<Barrier(oldLayout, newLayout)>>, "")
    ELSE Recording(<<>>, "Unsupported layout transition!")

\* The loop of recordGenerateMipmapsCommand, from level i on: two barriers
\* around a blit per level.
RECURSIVE MipLevelCommands(_, _)
MipLevelCommands(i, mipLevels) ==
    IF i >= mipLevels THEN <<>>
    ELSE <<Barrier(VK_IMAGE_LAYOUT_TRANSFER_DST_OPTIMAL,
                   VK_IMAGE_LAYOUT_TRANSFER_SRC_OPTIMAL),
           Command("vkCmdBlitImage", VK_IMAGE_LAYOUT_TRANSFER_SRC_OPTIMAL,
                   VK_IMAGE_LAYOUT_TRANSFER_DST_OPTIMAL),
           Barrier(VK_IMAGE_LAYOUT_TRANSFER_SRC_OPTIMAL,
                   VK_IMAGE_LAYOUT_SHADER_READ_ONLY_OPTIMAL)>>
            \o MipLevelCommands(i + 1, mipLevels)

recordGenerateMipmapsCommand(linearBlit, mipLevels) ==
    IF ~linearBlit
    THEN Recording(<<>>, "Texture image format does not support linear blitting!")
    ELSE Recording(MipLevelCommands(1, mipLevels)
                      \o <<Barrier(VK_IMAGE_LAYOUT_TRANSFER_DST_OPTIMAL,
                                   VK_IMAGE_LAYOUT_SHADER_READ_ONLY_OPTIMAL)>>, "")

\* What the helper records between beginSingleTimeCommands and
\* endSingleTimeCommands.
RecordingOf(call) ==
    CASE call.name = "copyBuffer" -> Recording(<<Command("vkCmdCopyBuffer", "", "")>>, "")
      [] call.name = "copyBufferToImage" ->
            Recording(<<Command("vkCmdCopyBufferToImage", "",
                                VK_IMAGE_LAYOUT_TRANSFER_DST_OPTIMAL)>>, "")
      [] call.name = "transitionImageLayout" ->
            recordTransitionImageLayoutCommand(call.oldLayout, call.newLayout)
      [] OTHER -> recordGenerateMipmapsCommand(call.linearBlit, call.mipLevels)

\* The user's createVulkanObjects() calls one of the helpers.
callHelper ==
    /\ pc = "createVulkanObjects"
    /\ \E call \in HelperCalls : helperCall' = call
    /\ commandBuffer' = "none"
    /\ recorded' = <<>>
    /\ calls' = <<>>
    /\ pc' = "beginSingleTimeCommands"
    /\ UNCHANGED <<error, appVars, envVars, objVars, devVars, queueVars,
                   surfaceImageFormat, chainVars, imageViewFormat, memVars,
                   allocatedCommandBuffers, syncVars>>

\* beginSingleTimeCommands: vkAllocateCommandBuffers, vkBeginCommandBuffer.
beginSingleTimeCommands ==
    /\ pc = "beginSingleTimeCommands"
    /\ allocatedCommandBuffers' = allocatedCommandBuffers + 1
    /\ commandBuffer' = "recording"
    /\ Log(Call("beginSingleTimeCommands", "", NoSync, NoSync, NoSync))
    /\ pc' = "record"
    /\ UNCHANGED <<error, appVars, envVars, objVars, devVars, queueVars,
                   surfaceImageFormat, chainVars, imageViewFormat, memVars, helperCall, recorded,
                   syncVars>>

\* The helper's record...Command call, which may throw.
recordCommands ==
    /\ pc = "record"
    /\ recorded' = recorded \o RecordingOf(helperCall).commands
    /\ Log(Call("record", "", NoSync, NoSync, NoSync))
    /\ IF RecordingOf(helperCall).error # ""
       THEN Throw(RecordingOf(helperCall).error)
       ELSE pc' = "endSingleTimeCommands" /\ error' = error
    /\ UNCHANGED <<appVars, envVars, objVars, devVars, queueVars, surfaceImageFormat,
                   chainVars, imageViewFormat, memVars, helperCall, commandBuffer,
                   allocatedCommandBuffers, syncVars>>

\* endSingleTimeCommands: vkEndCommandBuffer, vkQueueSubmit (its result is
\* not looked at), vkQueueWaitIdle, vkFreeCommandBuffers; the helper returns.
endSingleTimeCommands ==
    /\ pc = "endSingleTimeCommands"
    /\ \E result \in SubmitResults :
          Log(Call("endSingleTimeCommands", result, NoSync, NoSync, NoSync))
    /\ commandBuffer' = "freed"
    /\ allocatedCommandBuffers' = allocatedCommandBuffers - 1
    /\ pc' = "createVulkanObjects"
    /\ UNCHANGED <<error, appVars, envVars, objVars, devVars, queueVars,
                   surfaceImageFormat, chainVars, imageViewFormat, memVars, helperCall, recorded,
                   syncVars>>

----------------------------------------------------------------------------
(* mainLoop                                                                *)

\* mainLoop: while (!glfwWindowShouldClose(window))
mainLoopTest ==
    /\ pc = "mainLoop"
    /\ pc' = IF windowShouldClose THEN "mainLoopWaitIdle" ELSE "glfwPollEvents"
    /\ calls' = <<>>
    /\ UNCHANGED <<objVars, devVars, auxVars, error, appVars, envVars>>

\* mainLoop: glfwPollEvents()
glfwPollEvents ==
    /\ pc = "glfwPollEvents"
    /\ ProcessEvents
    /\ Log(Call("glfwPollEvents", "", NoSync, NoSync, NoSync))
    /\ pc' = "getNbCommandBuffers"
    /\ UNCHANGED <<objVars, devVars, auxVars, error, currentFrame, inFlightFences, gpuQueue, swapChain,
                   commandBufferList, nbCommandBuffers, width, height, rcCaller,
                   fbWidth, fbHeight>>

\* mainLoop: getNbCommandBuffers(), the resize of commandBufferList and the
\* decision to draw.
getNbCommandBuffers ==
    /\ pc = "getNbCommandBuffers"
    /\ \E nb \in 0 .. MaxNbCommandBuffers :
          /\ nbCommandBuffers' = nb
          /\ commandBufferList' = ResizeCommandBufferList(commandBufferList, nb)
          /\ pc' = IF ShouldDraw(nb) THEN DrawFrameOrder[1] ELSE "mainLoop"
    /\ Log(Call("getNbCommandBuffers", "", NoSync, NoSync, NoSync))
    /\ UNCHANGED <<objVars, devVars, auxVars, error, currentFrame, framebufferResized, inFlightFences, gpuQueue,
                   swapChain, width, height, rcCaller, envVars>>

----------------------------------------------------------------------------
(* drawFrame                                                               *)

\* vkWaitForFences(device, 1, &inFlightFences[currentFrame], VK_TRUE, UINT64_MAX)
vkWaitForFences ==
    /\ pc = "vkWaitForFences"
    /\ FenceWaitReturns(currentFrame)
    /\ Log(Call("vkWaitForFences", "", {InFlightFence(currentFrame)}, NoSync, NoSync))
    /\ pc' = StepAfter("vkWaitForFences")
    /\ UNCHANGED <<objVars, devVars, auxVars, error, appVars, envVars>>

\* vkAcquireNextImageKHR(..., imageAvailableSemaphores[currentFrame], ...) and
\* the handling of its result.
vkAcquireNextImageKHR ==
    /\ pc = "vkAcquireNextImageKHR"
    /\ AcquireReturns
    /\ \E result \in SwapChainResults :
          /\ imageAvailableSemaphores' =
                IF AcquireSignals(result)
                THEN [imageAvailableSemaphores EXCEPT ![currentFrame] = TRUE]
                ELSE imageAvailableSemaphores
          /\ LET acquired == Call("vkAcquireNextImageKHR", result, NoSync,
                                  {ImageAvailable(currentFrame)}, NoSync)
             IN  CASE AcquireOutcome(result) = "recreate" ->
                        /\ calls' = calls \o <<acquired,
                               Call("recreateSwapChain", "", NoSync, NoSync, NoSync)>>
                        /\ rcCaller' = "vkAcquireNextImageKHR"
                        /\ pc' = "glfwGetFramebufferSize"
                        /\ error' = error
                   [] AcquireOutcome(result) = "throw" ->
                        /\ Log(acquired)
                        /\ Throw("Failed to acquire swap chain image!")
                        /\ rcCaller' = rcCaller
                   [] OTHER ->
                        /\ Log(acquired)
                        /\ pc' = StepAfter("vkAcquireNextImageKHR")
                        /\ error' = error
                        /\ rcCaller' = rcCaller
    /\ UNCHANGED <<objVars, devVars, restVars, renderFinishedSemaphores, presentQueue,
                   presentationEngine, currentFrame, framebufferResized, inFlightFences, gpuQueue, swapChain,
                   commandBufferList, nbCommandBuffers, width, height, envVars>>

\* vkResetFences(device, 1, &inFlightFences[currentFrame])
vkResetFences ==
    /\ pc = "vkResetFences"
    /\ inFlightFences' = [inFlightFences EXCEPT ![currentFrame] = FALSE]
    /\ Log(Call("vkResetFences", "", NoSync, NoSync, {InFlightFence(currentFrame)}))
    /\ pc' = StepAfter("vkResetFences")
    /\ UNCHANGED <<objVars, devVars, auxVars, error, currentFrame, framebufferResized, gpuQueue, swapChain,
                   commandBufferList, nbCommandBuffers, width, height, rcCaller, envVars>>

\* getCommandBuffers(elapsed, imageIndex, commandBufferList): the user records
\* with the resources of slot currentFrame.
getCommandBuffers ==
    /\ pc = "getCommandBuffers"
    /\ Log(Call("getCommandBuffers", "", NoSync, NoSync, NoSync))
    /\ pc' = StepAfter("getCommandBuffers")
    /\ UNCHANGED <<objVars, devVars, auxVars, error, appVars, envVars>>

\* vkQueueSubmit(graphicsQueue, 1, &submitInfo, inFlightFences[currentFrame]):
\* waits on imageAvailableSemaphores[currentFrame], signals
\* renderFinishedSemaphores[currentFrame] and the fence when the work is done.
vkQueueSubmit ==
    /\ pc = "vkQueueSubmit"
    /\ \E result \in SubmitResults :
          /\ Log(Call("vkQueueSubmit", result, {ImageAvailable(currentFrame)},
                      {RenderFinished(currentFrame), InFlightFence(currentFrame)},
                      NoSync))
          /\ gpuQueue' = IF result = VK_SUCCESS THEN Append(gpuQueue, currentFrame)
                         ELSE gpuQueue
          /\ IF SubmitOutcome(result) = "throw"
             THEN Throw("Failed to submit draw command buffer!")
             ELSE pc' = StepAfter("vkQueueSubmit") /\ error' = error
    /\ UNCHANGED <<objVars, devVars, auxVars, currentFrame, framebufferResized, inFlightFences, swapChain,
                   commandBufferList, nbCommandBuffers, width, height, rcCaller, envVars>>

\* vkQueuePresentKHR(presentationQueue, &presentInfo), waiting on
\* renderFinishedSemaphores[currentFrame], and the handling of its result.
vkQueuePresentKHR ==
    /\ pc = "vkQueuePresentKHR"
    /\ IF presentationEngine = "immediate" /\ renderFinishedSemaphores[currentFrame]
       THEN /\ renderFinishedSemaphores' =
                  [renderFinishedSemaphores EXCEPT ![currentFrame] = FALSE]
            /\ presentQueue' = presentQueue
       ELSE /\ presentQueue' = Append(presentQueue, currentFrame)
            /\ renderFinishedSemaphores' = renderFinishedSemaphores
    /\ \E result \in SwapChainResults :
          LET presented == Call("vkQueuePresentKHR", result,
                                {RenderFinished(currentFrame)}, NoSync, NoSync)
          IN  CASE PresentOutcome(result, framebufferResized) = "recreate" ->
                     /\ framebufferResized' = FALSE
                     /\ calls' = calls \o <<presented,
                            Call("recreateSwapChain", "", NoSync, NoSync, NoSync)>>
                     /\ rcCaller' = "vkQueuePresentKHR"
                     /\ pc' = "glfwGetFramebufferSize"
                     /\ error' = error
                [] PresentOutcome(result, framebufferResized) = "throw" ->
                     /\ Log(presented)
                     /\ Throw("Failed to present swap chain image!")
                     /\ UNCHANGED <<framebufferResized, rcCaller>>
                [] OTHER ->
                     /\ Log(presented)
                     /\ pc' = StepAfter("vkQueuePresentKHR")
                     /\ error' = error
                     /\ UNCHANGED <<framebufferResized, rcCaller>>
    /\ UNCHANGED <<objVars, devVars, restVars, imageAvailableSemaphores, presentationEngine,
                   currentFrame, inFlightFences, gpuQueue, swapChain, commandBufferList,
                   nbCommandBuffers, width, height, envVars>>

\* currentFrame = (currentFrame + 1) % MAX_NB_FRAMES_IN_FLIGHT, and the return
\* to mainLoop.
advance ==
    /\ pc = "advance"
    /\ Log(Call("advance", "", NoSync, NoSync, NoSync))
    /\ currentFrame' = NextFrame(currentFrame)
    /\ pc' = "mainLoop"
    /\ UNCHANGED <<objVars, devVars, auxVars, error, framebufferResized, inFlightFences, gpuQueue, swapChain,
                   commandBufferList, nbCommandBuffers, width, height, rcCaller, envVars>>

----------------------------------------------------------------------------
(* recreateSwapChain                                                       *)

\* int width = 0, height = 0; glfwGetFramebufferSize(...); and the first test
\* of the while condition.
glfwGetFramebufferSize ==
    /\ pc = "glfwGetFramebufferSize"
    /\ width' = fbWidth
    /\ height' = fbHeight
    /\ pc' = IF SizeIsZero(fbWidth, fbHeight) THEN "loopGetFramebufferSize"
             ELSE recreateSwapChainSteps[1]
    /\ UNCHANGED <<objVars, devVars, auxVars, error, currentFrame, framebufferResized, inFlightFences, gpuQueue,
                   swapChain, commandBufferList, nbCommandBuffers, rcCaller, envVars,
                   calls>>

\* Loop body, first statement: glfwGetFramebufferSize(window, &width, &height)
loopGetFramebufferSize ==
    /\ pc = "loopGetFramebufferSize"
    /\ width' = fbWidth
    /\ height' = fbHeight
    /\ pc' = "glfwWaitEvents"
    /\ UNCHANGED <<objVars, devVars, auxVars, error, currentFrame, framebufferResized, inFlightFences, gpuQueue,
                   swapChain, commandBufferList, nbCommandBuffers, rcCaller, envVars,
                   calls>>

\* Loop body, second statement: glfwWaitEvents() blocks until an event is
\* queued and processes the queue; then the while condition is tested again
\* on the locals.
glfwWaitEvents ==
    /\ pc = "glfwWaitEvents"
    /\ events # {}
    /\ ProcessEvents
    /\ pc' = IF SizeIsZero(width, height) THEN "loopGetFramebufferSize"
             ELSE recreateSwapChainSteps[1]
    /\ UNCHANGED <<objVars, devVars, auxVars, error, currentFrame, inFlightFences, gpuQueue, swapChain,
                   commandBufferList, nbCommandBuffers, width, height, rcCaller,
                   fbWidth, fbHeight, calls>>

\* vkDeviceWaitIdle(device): returns once the GPU has completed everything.
vkDeviceWaitIdle ==
    /\ pc = "vkDeviceWaitIdle"
    /\ gpuQueue = <<>>
    /\ presentQueue = <<>>
    /\ Log(Call("vkDeviceWaitIdle", "", NoSync, NoSync, NoSync))
    /\ Goto("vkDeviceWaitIdle")
    /\ UNCHANGED <<error, appVars, envVars, live, swapChainImages, swapChainImageViews,
                   liveViews, devVars, auxVars>>

----------------------------------------------------------------------------
(* Tearing down and building the swap chain                                *)

\* cleanupSwapChain: the user's onSwapChainAboutToBeDestroyed().
onSwapChainAboutToBeDestroyed ==
    /\ DestroyStep("onSwapChainAboutToBeDestroyed", "swapChainUserObjects")
    /\ UNCHANGED <<error, appVars, envVars, swapChainImages, swapChainImageViews,
                   liveViews, devVars, auxVars>>

\* cleanupSwapChain: for (auto imageView : swapChainImageViews) vkDestroyImageView(...)
vkDestroyImageView ==
    /\ pc = "vkDestroyImageView"
    /\ liveViews' = liveViews \ Range(swapChainImageViews)
    /\ Log(Call("vkDestroyImageView", "", NoSync, NoSync, NoSync))
    /\ Goto("vkDestroyImageView")
    /\ UNCHANGED <<error, appVars, envVars, live, swapChainImages, swapChainImageViews,
                   devVars, auxVars>>

\* cleanupSwapChain: vkDestroySwapchainKHR(device, swapChain, nullptr)
vkDestroySwapchainKHR ==
    /\ pc = "vkDestroySwapchainKHR"
    /\ swapChain' = "destroyed"
    /\ Log(Call("vkDestroySwapchainKHR", "", NoSync, NoSync, NoSync))
    /\ Goto("vkDestroySwapchainKHR")
    /\ UNCHANGED <<error, currentFrame, framebufferResized, inFlightFences, gpuQueue,
                   commandBufferList, nbCommandBuffers, width, height, rcCaller, envVars,
                   live, swapChainImages, swapChainImageViews, liveViews, devVars, auxVars>>

\* createSwapChain(): the surface support of the device is queried and the
\* creation parameters chosen from it; vkCreateSwapchainKHR may fail, which
\* throws; the chain has the number of images asked for.
createSwapChain ==
    /\ pc = "createSwapChain"
    /\ swapChainCreateInfo' = CreateInfo(devices[physicalDevice], fbWidth, fbHeight)
    /\ \/ /\ swapChain' = "live"
          /\ swapChainImages' = swapChainCreateInfo'.minImageCount
          /\ swapChainExtent' = swapChainCreateInfo'.imageExtent
          /\ Log(Call("createSwapChain", VK_SUCCESS, NoSync, NoSync, NoSync))
          /\ Goto("createSwapChain")
          /\ error' = error
       \/ /\ UNCHANGED <<swapChain, swapChainImages, swapChainExtent, fn>>
          /\ Log(Call("createSwapChain", VK_ERROR_DEVICE_LOST, NoSync, NoSync, NoSync))
          /\ Throw("Failed to create swap chain!")
    /\ UNCHANGED <<currentFrame, framebufferResized, inFlightFences, gpuQueue,
                   commandBufferList, nbCommandBuffers, width, height, rcCaller, envVars,
                   live, swapChainImageViews, liveViews, devVars, queueVars,
                   surfaceImageFormat, imageViewFormat, cmdVars, memVars, syncVars>>

\* createImageViews(): one view per image of the chain; vkCreateImageView may
\* fail on any of them, which throws with the views before it created.
createImageViews ==
    /\ pc = "createImageViews"
    /\ imageViewFormat' = IF swapChainImages > 0 THEN surfaceImageFormat
                          ELSE imageViewFormat
    /\ \/ /\ swapChainImageViews' = [i \in 1 .. swapChainImages |-> i]
          /\ liveViews' = liveViews \cup (1 .. swapChainImages)
          /\ Log(Call("createImageViews", VK_SUCCESS, NoSync, NoSync, NoSync))
          /\ Goto("createImageViews")
          /\ error' = error
       \/ \E k \in 1 .. swapChainImages :
             /\ swapChainImageViews' =
                   [i \in 1 .. swapChainImages |->
                       IF i < k THEN i ELSE Resize(swapChainImageViews, swapChainImages)[i]]
             /\ liveViews' = liveViews \cup (1 .. (k - 1))
             /\ Log(Call("createImageViews", VK_ERROR_DEVICE_LOST, NoSync, NoSync, NoSync))
             /\ Throw("Failed to create image view!")
             /\ fn' = fn
    /\ UNCHANGED <<appVars, envVars, live, swapChainImages, devVars, queueVars,
                   surfaceImageFormat, chainVars, cmdVars, memVars, syncVars>>

\* The user's onSwapChainReady(), and the return to the caller; the locals of
\* recreateSwapChain end with it.
onSwapChainReady ==
    /\ pc = "onSwapChainReady"
    /\ CreateObject("swapChainUserObjects")
    /\ Log(Call("onSwapChainReady", "", NoSync, NoSync, NoSync))
    /\ Goto("onSwapChainReady")
    /\ width' = 0
    /\ height' = 0
    /\ UNCHANGED <<error, currentFrame, framebufferResized, inFlightFences, gpuQueue,
                   swapChain, commandBufferList, nbCommandBuffers, rcCaller, envVars,
                   swapChainImages, swapChainImageViews, liveViews, devVars, auxVars>>

----------------------------------------------------------------------------
(* Leaving the main loop                                                   *)

\* mainLoop: vkDeviceWaitIdle(device) after the loop; cleanup() is entered.
mainLoopWaitIdle ==
    /\ pc = "mainLoopWaitIdle"
    /\ gpuQueue = <<>>
    /\ presentQueue = <<>>
    /\ Log(Call("vkDeviceWaitIdle", "", NoSync, NoSync, NoSync))
    /\ pc' = cleanupSteps[1]
    /\ fn' = "cleanup"
    /\ UNCHANGED <<error, appVars, envVars, live, swapChainImages, swapChainImageViews,
                   liveViews, devVars, auxVars>>

\* cleanup: the user's destroyVulkanObjects().
destroyVulkanObjects ==
    /\ DestroyStep("destroyVulkanObjects", "userObjects")
    /\ UNCHANGED <<error, appVars, envVars, swapChainImages, swapChainImageViews,
                   liveViews, devVars, auxVars>>

\* cleanup: the loop destroying the semaphores and the fence of every slot.
destroySyncObjects ==
    /\ DestroyStep("destroySyncObjects", "syncObjects")
    /\ UNCHANGED <<error, appVars, envVars, swapChainImages, swapChainImageViews,
                   liveViews, devVars, auxVars>>

\* cleanup: vkDestroyDevice(device, nullptr)
vkDestroyDevice ==
    /\ DestroyStep("vkDestroyDevice", "device")
    /\ UNCHANGED <<error, appVars, envVars, swapChainImages, swapChainImageViews,
                   liveViews, devVars, auxVars>>

\* cleanup: if (enableValidationLayers) vkDestroyDebugUtilsMessengerEXT(...),
\* which does nothing on a null handle.
vkDestroyDebugUtilsMessengerEXT ==
    /\ IF enableValidationLayers /\ live["debugMessenger"] > 0
       THEN DestroyStep("vkDestroyDebugUtilsMessengerEXT", "debugMessenger")
       ELSE /\ pc = "vkDestroyDebugUtilsMessengerEXT"
            /\ Goto("vkDestroyDebugUtilsMessengerEXT")
            /\ UNCHANGED <<live, calls>>
    /\ UNCHANGED <<error, appVars, envVars, swapChainImages, swapChainImageViews,
                   liveViews, devVars, auxVars>>

\* cleanup: vkDestroySurfaceKHR(instance, surface, nullptr)
vkDestroySurfaceKHR ==
    /\ DestroyStep("vkDestroySurfaceKHR", "surface")
    /\ UNCHANGED <<error, appVars, envVars, swapChainImages, swapChainImageViews,
                   liveViews, devVars, auxVars>>

\* cleanup: vkDestroyInstance(instance, nullptr)
vkDestroyInstance ==
    /\ DestroyStep("vkDestroyInstance", "instance")
    /\ UNCHANGED <<error, appVars, envVars, swapChainImages, swapChainImageViews,
                   liveViews, devVars, auxVars>>

\* cleanup: glfwDestroyWindow(window); glfwTerminate(); run() returns.
glfwDestroyWindow ==
    /\ DestroyStep("glfwDestroyWindow", "window")
    /\ UNCHANGED <<error, appVars, envVars, swapChainImages, swapChainImageViews,
                   liveViews, devVars, auxVars>>

----------------------------------------------------------------------------
(* What runs asynchronously to the CPU thread                              *)

\* The GPU completes the oldest submission and signals its fence.
GpuComplete ==
    /\ gpuQueue # <<>>
    /\ inFlightFences' = [inFlightFences EXCEPT ![Head(gpuQueue)] = TRUE]
    /\ gpuQueue' = Tail(gpuQueue)
    /\ imageAvailableSemaphores' =
          [imageAvailableSemaphores EXCEPT ![Head(gpuQueue)] = FALSE]
    /\ IF /\ presentationEngine = "immediate"
          /\ presentQueue # <<>>
          /\ Head(presentQueue) = Head(gpuQueue)
       THEN /\ presentQueue' = Tail(presentQueue)
            /\ renderFinishedSemaphores' = renderFinishedSemaphores
       ELSE /\ presentQueue' = presentQueue
            /\ renderFinishedSemaphores' =
                  [renderFinishedSemaphores EXCEPT ![Head(gpuQueue)] = TRUE]
    /\ UNCHANGED <<objVars, devVars, restVars, presentationEngine, pc, error, currentFrame, framebufferResized, swapChain,
                   commandBufferList, nbCommandBuffers, width, height, rcCaller, envVars,
                   calls>>

\* The presentation engine executes the semaphore wait of the oldest queued
\* present, once the semaphore is signaled.
PresentComplete ==
    /\ presentationEngine = "deferred"
    /\ presentQueue # <<>>
    /\ renderFinishedSemaphores[Head(presentQueue)]
    /\ renderFinishedSemaphores' =
          [renderFinishedSemaphores EXCEPT ![Head(presentQueue)] = FALSE]
    /\ presentQueue' = Tail(presentQueue)
    /\ UNCHANGED <<objVars, devVars, restVars, imageAvailableSemaphores,
                   presentationEngine, pc, error, appVars, envVars, calls>>

WindowExists == pc \notin {"run", "done", "thrown"}

\* The user resizes, minimizes or restores the window: the size changes at
\* once, the notification is queued until the application processes events.
WindowResize ==
    /\ WindowExists
    /\ \E w \in Dims, h \in Dims :
          /\ <<w, h>> # <<fbWidth, fbHeight>>
          /\ fbWidth' = w
          /\ fbHeight' = h
    /\ events' = events \cup {"resize"}
    /\ UNCHANGED <<objVars, devVars, auxVars, pc, error, appVars, windowShouldClose, calls>>

\* The user asks to close the window.
WindowClose ==
    /\ WindowExists
    /\ ~windowShouldClose
    /\ events' = events \cup {"close"}
    /\ UNCHANGED <<objVars, devVars, auxVars, pc, error, appVars, fbWidth, fbHeight, windowShouldClose, calls>>

\* Any other window event (mouse, keyboard, focus).
WindowOther ==
    /\ WindowExists
    /\ events' = events \cup {"other"}
    /\ UNCHANGED <<objVars, devVars, auxVars, pc, error, appVars, fbWidth, fbHeight, windowShouldClose, calls>>

\* The surface of the window changes what it supports (the window moves to
\* another display, the display changes its mode): another list of formats.
SurfaceChange ==
    /\ physicalDevice # 0
    /\ pc \notin {"done", "thrown"}
    /\ \E f \in FormatLists :
          /\ f # devices[physicalDevice].formats
          /\ devices' = [devices EXCEPT ![physicalDevice].formats = f]
    /\ UNCHANGED <<pc, error, appVars, envVars, calls, objVars, config, physicalDevice,
                   auxVars>>

\* An iteration of mainLoop whose drawFrame is told by vkAcquireNextImageKHR
\* that the swap chain is out of date: recreateSwapChain() is called.
drawFrameOutOfDate ==
    /\ pc = "mainLoop"
    /\ calls' = <<Call("recreateSwapChain", "", NoSync, NoSync, NoSync)>>
    /\ rcCaller' = "vkAcquireNextImageKHR"
    /\ pc' = "glfwGetFramebufferSize"
    /\ UNCHANGED <<error, currentFrame, framebufferResized, inFlightFences, gpuQueue,
                   swapChain, commandBufferList, nbCommandBuffers, width, height,
                   envVars, objVars, devVars, auxVars>>

----------------------------------------------------------------------------
Next ==
    \/ initWindow
    \/ createInstance
    \/ setupDebugMessenger
    \/ createSurface
    \/ pickPhysicalDevice
    \/ createLogicalDevice
    \/ createSyncObjectsCall
    \/ createVulkanObjects
    \/ mainLoopTest
    \/ glfwPollEvents
    \/ getNbCommandBuffers
    \/ vkWaitForFences
    \/ vkAcquireNextImageKHR
    \/ vkResetFences
    \/ getCommandBuffers
    \/ vkQueueSubmit
    \/ vkQueuePresentKHR
    \/ advance
    \/ glfwGetFramebufferSize
    \/ loopGetFramebufferSize
    \/ glfwWaitEvents
    \/ vkDeviceWaitIdle
    \/ onSwapChainAboutToBeDestroyed
    \/ vkDestroyImageView
    \/ vkDestroySwapchainKHR
    \/ createSwapChain
    \/ createImageViews
    \/ onSwapChainReady
    \/ mainLoopWaitIdle
    \/ destroyVulkanObjects
    \/ destroySyncObjects
    \/ vkDestroyDevice
    \/ vkDestroyDebugUtilsMessengerEXT
    \/ vkDestroySurfaceKHR
    \/ vkDestroyInstance
    \/ glfwDestroyWindow
    \/ GpuComplete
    \/ WindowResize
    \/ WindowClose
    \/ WindowOther

Spec == Init /\ [][Next]_vars

\* The GPU eventually completes submitted work, and the CPU thread returns
\* from a fence wait whose fence is signaled.
FairSpec == Spec /\ WF_vars(GpuComplete) /\ WF_vars(vkWaitForFences)

\* Device selection on any machine and under any configuration: run() up to
\* the first swap-chain build.
DeviceSelectionInit == \E m \in Machines : Boot(m[1], m[2])

DeviceSelectionNext ==
    \/ initWindow
    \/ createInstance
    \/ setupDebugMessenger
    \/ createSurface
    \/ pickPhysicalDevice
    \/ createLogicalDevice
    \/ createSyncObjectsCall
    \/ createVulkanObjects

DeviceSelectionSpec == DeviceSelectionInit /\ [][DeviceSelectionNext]_vars

\* The swap chain built and rebuilt on any surface, the surface and the
\* framebuffer size staying what they are.
SwapChainInit ==
    \E d \in SurfaceDevices \cup QueueFamilyDevices : Boot(<<d>>, DefaultConfig)

SwapChainNext ==
    \/ initWindow
    \/ createInstance
    \/ setupDebugMessenger
    \/ createSurface
    \/ pickPhysicalDevice
    \/ createLogicalDevice
    \/ createSyncObjectsCall
    \/ createVulkanObjects
    \/ createSwapChain
    \/ createImageViews
    \/ onSwapChainReady
    \/ drawFrameOutOfDate
    \/ glfwGetFramebufferSize
    \/ vkDeviceWaitIdle
    \/ onSwapChainAboutToBeDestroyed
    \/ vkDestroyImageView
    \/ vkDestroySwapchainKHR

SwapChainSpec == SwapChainInit /\ [][SwapChainNext]_vars

\* The same on a surface whose format list changes at any time.
SurfaceChangeInit == \E d \in FormatDevices : Boot(<<d>>, DefaultConfig)

SurfaceChangeNext == SwapChainNext \/ SurfaceChange

SurfaceChangeSpec == SurfaceChangeInit /\ [][SurfaceChangeNext]_vars

\* run() up to the end of the user's createVulkanObjects(), which calls the
\* one-shot helpers any number of times.
OneShotNext ==
    \/ initWindow
    \/ createInstance
    \/ setupDebugMessenger
    \/ createSurface
    \/ pickPhysicalDevice
    \/ createLogicalDevice
    \/ createSyncObjectsCall
    \/ callHelper
    \/ beginSingleTimeCommands
    \/ recordCommands
    \/ endSingleTimeCommands
    \/ createVulkanObjects

OneShotSpec == Boot(<<GoodDevice>>, DefaultConfig) /\ [][OneShotNext]_vars

\* run() up to the end of the user's createVulkanObjects(), which creates
\* a buffer.
AllocationNext ==
    \/ initWindow
    \/ createInstance
    \/ setupDebugMessenger
    \/ createSurface
    \/ pickPhysicalDevice
    \/ createLogicalDevice
    \/ createSyncObjectsCall
    \/ createBuffer
    \/ createVulkanObjects

AllocationSpec == Boot(<<GoodDevice>>, DefaultConfig) /\ [][AllocationNext]_vars

\* The frame loop without window events, on a machine whose presentation
\* engine executes the queued presents at any later time, for a swap chain of
\* two up to MaxImageCount + 1 images.
FrameSyncInit ==
    \E n \in 1 .. MaxImageCount :
       BootWith(<<[GoodDevice EXCEPT !.minImageCount = n]>>, DefaultConfig, "deferred")

FrameSyncNext ==
    \/ initWindow
    \/ createInstance
    \/ setupDebugMessenger
    \/ createSurface
    \/ pickPhysicalDevice
    \/ createLogicalDevice
    \/ createSyncObjectsCall
    \/ createVulkanObjects
    \/ mainLoopTest
    \/ glfwPollEvents
    \/ getNbCommandBuffers
    \/ vkWaitForFences
    \/ vkAcquireNextImageKHR
    \/ vkResetFences
    \/ getCommandBuffers
    \/ vkQueueSubmit
    \/ vkQueuePresentKHR
    \/ advance
    \/ glfwGetFramebufferSize
    \/ vkDeviceWaitIdle
    \/ onSwapChainAboutToBeDestroyed
    \/ vkDestroyImageView
    \/ vkDestroySwapchainKHR
    \/ createSwapChain
    \/ createImageViews
    \/ onSwapChainReady
    \/ GpuComplete
    \/ PresentComplete

FrameSyncSpec == FrameSyncInit /\ [][FrameSyncNext]_vars

TypeOK ==
    /\ currentFrame \in Slots
    /\ framebufferResized \in BOOLEAN
    /\ inFlightFences \in [Slots -> BOOLEAN]
    /\ swapChain \in {"null", "live", "destroyed"}
    /\ fbWidth \in Dims /\ fbHeight \in Dims
    /\ events \subseteq {"resize", "close", "other"}

----------------------------------------------------------------------------
(* Vocabulary of the properties                                            *)

CallsOf(op) == {i \in DOMAIN calls : calls[i].op = op}
HasCall(op) == CallsOf(op) # {}
Ops == [i \in DOMAIN calls |-> calls[i].op]
RecreatePcs ==
    {"glfwGetFramebufferSize", "loopGetFramebufferSize", "glfwWaitEvents"}
       \cup Range(recreateSwapChainSteps)
RecognisedCodes == {VK_SUCCESS, VK_ERROR_OUT_OF_DATE_KHR, VK_SUBOPTIMAL_KHR}
AcquiredCodes == {VK_SUCCESS, VK_SUBOPTIMAL_KHR}

IsDrawFrameCall(c) ==
    c.op \in {"vkWaitForFences", "vkAcquireNextImageKHR", "vkResetFences",
              "getCommandBuffers", "vkQueueSubmit", "vkQueuePresentKHR"}
DrawFrameCalls == SelectSeq(calls, IsDrawFrameCall)

----------------------------------------------------------------------------
\* C1: at most MAX_NB_FRAMES_IN_FLIGHT submissions have a fence that is not
\* yet signaled, no slot has two of them, and drawFrame resets the fence,
\* calls getCommandBuffers and submits for a slot only after it has waited
\* for that slot's fence, so that the GPU no longer executes the slot's
\* previous submission.
C1_FramesInFlightBounded ==
    /\ Len(gpuQueue) <= MAX_NB_FRAMES_IN_FLIGHT
    /\ \A i, j \in DOMAIN gpuQueue : i # j => gpuQueue[i] # gpuQueue[j]
    /\ \A s \in Range(gpuQueue) : ~inFlightFences[s]
    /\ pc \in {"vkResetFences", "getCommandBuffers", "vkQueueSubmit"}
          => currentFrame \notin Range(gpuQueue)
    /\ \A i \in DOMAIN calls :
          calls[i].op \in {"vkResetFences", "getCommandBuffers", "vkQueueSubmit"}
          => \E j \in 1 .. (i - 1) :
                /\ calls[j].op = "vkWaitForFences"
                /\ calls[j].wait = {InFlightFence(calls[i].frame)}

\* N frames are in flight and the CPU is blocked on the fence of the slot.
C1_Witness ==
    /\ Len(gpuQueue) = MAX_NB_FRAMES_IN_FLIGHT
    /\ pc = "vkWaitForFences"
    /\ ~inFlightFences[currentFrame]

\* C2: after an acquire that returned VK_ERROR_OUT_OF_DATE_KHR, the iteration
\* holds exactly one recreateSwapChain, no fence reset, getCommandBuffers,
\* submit, present or advance; the slot's fence is still signaled and
\* currentFrame is the slot the frame started with.
C2_StaleAcquireAbortsFrame ==
    \A i \in CallsOf("vkAcquireNextImageKHR") :
       calls[i].res = VK_ERROR_OUT_OF_DATE_KHR =>
          /\ Cardinality(CallsOf("recreateSwapChain")) = 1
          /\ i < Len(calls) /\ calls[i + 1].op = "recreateSwapChain"
          /\ ~HasCall("vkResetFences")
          /\ ~HasCall("getCommandBuffers")
          /\ ~HasCall("vkQueueSubmit")
          /\ ~HasCall("vkQueuePresentKHR")
          /\ ~HasCall("advance")
          /\ currentFrame = calls[i].frame
          /\ inFlightFences[currentFrame]
          /\ pc \in RecreatePcs \cup {"mainLoop", "thrown"}

\* drawFrame has returned to the loop after a stale acquire and a rebuild.
C2_Witness ==
    /\ pc = "mainLoop"
    /\ swapChain = "live"
    /\ \E i \in CallsOf("vkAcquireNextImageKHR") :
          calls[i].res = VK_ERROR_OUT_OF_DATE_KHR
    /\ HasCall("createSwapChain")

\* C3 as stated: after a present that returned VK_SUBOPTIMAL_KHR the slot
\* index has advanced by the time the recreation runs.
C3_AdvanceThenRecreate ==
    \A i \in CallsOf("vkQueuePresentKHR") :
       (calls[i].res = VK_SUBOPTIMAL_KHR /\ pc \in RecreatePcs)
          => currentFrame = NextFrame(calls[i].frame)

\* C3 (amended): after a present that returned VK_SUBOPTIMAL_KHR, exactly one
\* recreateSwapChain is triggered, directly after the present; the slot index
\* is still the frame's while the recreation runs, and advances once the
\* recreation has returned; no acquire happens in between.
C3_RecreateThenAdvance ==
    \A i \in CallsOf("vkQueuePresentKHR") :
       calls[i].res = VK_SUBOPTIMAL_KHR =>
          /\ Cardinality(CallsOf("recreateSwapChain")) = 1
          /\ i < Len(calls) /\ calls[i + 1].op = "recreateSwapChain"
          /\ \A j \in CallsOf("vkAcquireNextImageKHR") : j < i
          /\ pc \in RecreatePcs \cup {"advance", "mainLoop", "thrown"}
          /\ pc \in RecreatePcs \cup {"advance"} => currentFrame = calls[i].frame
          /\ pc = "mainLoop" =>
                /\ currentFrame = NextFrame(calls[i].frame)
                /\ \E j \in CallsOf("createSwapChain"), k \in CallsOf("advance") :
                      i < j /\ j < k /\ calls[j].res = VK_SUCCESS

\* The frame is over: presented suboptimal, chain rebuilt, slot advanced.
C3_Witness ==
    /\ pc = "mainLoop"
    /\ HasCall("advance")
    /\ \E i \in CallsOf("vkQueuePresentKHR") : calls[i].res = VK_SUBOPTIMAL_KHR

\* C4: an acquire or a present that returned a code other than success,
\* out-of-date or suboptimal makes drawFrame throw, whatever
\* framebufferResized was.
C4_UnrecognisedCodeIsFatal ==
    \A i \in CallsOf("vkAcquireNextImageKHR") \cup CallsOf("vkQueuePresentKHR") :
       calls[i].res \notin RecognisedCodes => pc = "thrown"

\* C5 as stated: a drawFrame call that returned after an acquire or a present
\* gave out-of-date or suboptimal has triggered a recreation.
C5_EveryStaleCodeRecreates ==
    \A i \in CallsOf("vkAcquireNextImageKHR") \cup CallsOf("vkQueuePresentKHR") :
       (calls[i].res \in StaleCodes /\ pc = "mainLoop") => HasCall("recreateSwapChain")

\* C5 (amended): out-of-date from acquire, and out-of-date or suboptimal from
\* present, trigger a recreation at once; suboptimal from acquire is treated
\* as success (the frame goes on to the fence reset, no recreation on its
\* account); and an exception raised for an acquire or present result is
\* never raised for one of the two staleness codes.
C5_StalenessHandledInternally ==
    /\ \A i \in CallsOf("vkAcquireNextImageKHR") :
          /\ calls[i].res = VK_ERROR_OUT_OF_DATE_KHR
                => (i < Len(calls) /\ calls[i + 1].op = "recreateSwapChain")
          /\ calls[i].res = VK_SUBOPTIMAL_KHR
                => /\ pc # "vkResetFences"
                      => (i < Len(calls) /\ calls[i + 1].op = "vkResetFences")
                   /\ pc = "vkResetFences" => i = Len(calls)
    /\ \A i \in CallsOf("vkQueuePresentKHR") :
          calls[i].res \in StaleCodes
             => (i < Len(calls) /\ calls[i + 1].op = "recreateSwapChain")
    /\ (pc = "thrown" /\ error = "Failed to acquire swap chain image!")
          => /\ calls # <<>>
             /\ calls[Len(calls)].op = "vkAcquireNextImageKHR"
             /\ calls[Len(calls)].res \notin StaleCodes
    /\ (pc = "thrown" /\ error = "Failed to present swap chain image!")
          => /\ calls # <<>>
             /\ calls[Len(calls)].op = "vkQueuePresentKHR"
             /\ calls[Len(calls)].res \notin StaleCodes

\* A frame whose acquire was suboptimal has completed without any recreation.
C5_Witness ==
    /\ pc = "mainLoop"
    /\ HasCall("advance")
    /\ ~HasCall("recreateSwapChain")
    /\ \E i \in CallsOf("vkAcquireNextImageKHR") : calls[i].res = VK_SUBOPTIMAL_KHR

\* C6: the slot's fence is reset only after a successful acquire of the same
\* drawFrame call; once initVulkan is through, every fence is signaled, or has
\* a pending submission that will signal it, or is the current slot's between
\* its reset and its submit (or the failure of that submit);
\* so at the fence wait the fence is signaled or will be.
C6_FenceSafe ==
    /\ \A s \in Slots :
          \/ inFlightFences[s]
          \/ s \in Range(gpuQueue)
          \/ s = currentFrame /\ pc \in {"getCommandBuffers", "vkQueueSubmit", "thrown"}
          \/ swapChain = "null"
    /\ pc = "vkWaitForFences"
          => inFlightFences[currentFrame] \/ currentFrame \in Range(gpuQueue)
    /\ \A i \in CallsOf("vkResetFences") :
          \E j \in CallsOf("vkAcquireNextImageKHR") :
             j < i /\ calls[j].res \in AcquiredCodes

\* C6, liveness: given that the GPU completes submitted work, the fence wait
\* at the start of drawFrame always returns.
C6_FenceWaitReturns ==
    /\ []C6_FenceSafe
    /\ (pc = "vkWaitForFences") ~> (pc # "vkWaitForFences")

\* drawFrame is entered again for the same slot after a stale acquire.
C6_Witness ==
    /\ pc = "vkWaitForFences"
    /\ rcCaller = "vkAcquireNextImageKHR"
    /\ Len(calls) = 2
    /\ currentFrame = 1

\* C7: in an iteration where getNbCommandBuffers returned 0 the loop polls
\* the events and calls nothing else: no fence wait, acquire,
\* getCommandBuffers, submit or present.
C7_IdleIterationOnlyPolls ==
    (HasCall("getNbCommandBuffers") /\ nbCommandBuffers = 0)
       => /\ Ops = <<"glfwPollEvents", "getNbCommandBuffers">>
          /\ pc = "mainLoop"

\* An idle iteration has ended, with a resize notification delivered in it.
C7_Witness ==
    /\ HasCall("getNbCommandBuffers")
    /\ nbCommandBuffers = 0
    /\ pc = "mainLoop"
    /\ framebufferResized

\* C8: once recreateSwapChain has observed a non-zero size it proceeds without
\* needing a further window event: it is never blocked in glfwWaitEvents on
\* an empty event queue with a non-zero size in hand.
C8_ProceedsOnceSizeNonZero ==
    ~(/\ pc = "glfwWaitEvents"
      /\ ~SizeIsZero(width, height)
      /\ events = {})

\* C9 as stated: once the frame was submitted, currentFrame has advanced when
\* drawFrame is over, whatever present returned.
C9_AdvancesWhateverPresentReturns ==
    \A i \in CallsOf("vkQueueSubmit") :
       (calls[i].res = VK_SUCCESS /\ pc \in {"mainLoop", "thrown"})
          => currentFrame = NextFrame(calls[i].frame)

\* C9 (amended): once the frame was submitted, currentFrame advances by one
\* modulo N exactly once if drawFrame returns, whatever present returned, and
\* not at all if drawFrame throws (present failed, or the recreation failed);
\* and it advances only for a submitted frame.
C9_AdvancesOnceIfDrawFrameReturns ==
    /\ \A i \in CallsOf("vkQueueSubmit") :
          calls[i].res = VK_SUCCESS =>
             /\ pc = "mainLoop" =>
                   /\ Cardinality(CallsOf("advance")) = 1
                   /\ currentFrame = NextFrame(calls[i].frame)
             /\ pc # "mainLoop" =>
                   /\ ~HasCall("advance")
                   /\ currentFrame = calls[i].frame
    /\ \A k \in CallsOf("advance") :
          \E i \in CallsOf("vkQueueSubmit") : i < k /\ calls[i].res = VK_SUCCESS

\* A frame whose present returned out-of-date has advanced the slot.
C9_Witness ==
    /\ pc = "mainLoop"
    /\ HasCall("advance")
    /\ currentFrame = 0
    /\ \E i \in CallsOf("vkQueuePresentKHR") : calls[i].res = VK_ERROR_OUT_OF_DATE_KHR

ClaimedOrder ==
    <<"vkWaitForFences", "vkAcquireNextImageKHR", "vkResetFences",
      "getCommandBuffers", "vkQueueSubmit", "vkQueuePresentKHR">>

\* C10: the calls of a drawFrame are, in this order, fence wait, acquire,
\* fence reset, getCommandBuffers, submit, present, all on the sync objects of
\* one slot: acquire signals its image-available semaphore, submit waits on
\* it and signals its render-finished semaphore and its fence, present waits
\* on render-finished; nothing follows an acquire that did not deliver an
\* image, and no present follows a failed submit.
C10_DrawFrameOrder ==
    LET D == DrawFrameCalls
        f == D[1].frame
    IN  /\ Len(D) <= Len(ClaimedOrder)
        /\ \A i \in DOMAIN D : D[i].op = ClaimedOrder[i] /\ D[i].frame = f
        /\ Len(D) >= 1 => D[1].wait = {InFlightFence(f)}
        /\ Len(D) >= 2 => D[2].signal = {ImageAvailable(f)}
        /\ Len(D) >= 3 => D[3].reset = {InFlightFence(f)} /\ D[2].res \in AcquiredCodes
        /\ Len(D) >= 5 => /\ D[5].wait = {ImageAvailable(f)}
                          /\ D[5].signal = {RenderFinished(f), InFlightFence(f)}
        /\ Len(D) >= 6 => D[6].wait = {RenderFinished(f)} /\ D[5].res = VK_SUCCESS

\* A whole frame of slot 1 has gone through, on a suboptimal acquire.
C10_Witness ==
    /\ Len(DrawFrameCalls) = 6
    /\ DrawFrameCalls[2].res = VK_SUBOPTIMAL_KHR
    /\ DrawFrameCalls[6].frame = 1

\* C11: a framebufferResized flag that is set stays set until a frame reaches
\* its present; that present, whatever it returns (success included), clears
\* the flag and is directly followed by recreateSwapChain; every acquire of
\* the iteration precedes that present, so the recreation runs before the
\* next frame's acquire.
C11_ResizeFlagConsumedAtPresent ==
    /\ [][/\ (framebufferResized /\ ~framebufferResized') => pc = "vkQueuePresentKHR"
          /\ (pc = "vkQueuePresentKHR" /\ framebufferResized /\ pc' # pc)
                => /\ ~framebufferResized'
                   /\ pc' = "glfwGetFramebufferSize"
                   /\ Len(calls') = Len(calls) + 2
                   /\ calls'[Len(calls) + 1].op = "vkQueuePresentKHR"
                   /\ calls'[Len(calls) + 2].op = "recreateSwapChain"]_vars
    /\ [](\A i \in CallsOf("recreateSwapChain") :
             \A j \in CallsOf("vkAcquireNextImageKHR") : j < i)

\* A frame presented with success while the flag was set, the chain was
\* rebuilt and the frame is over.
C11_Witness ==
    /\ pc = "mainLoop"
    /\ HasCall("advance")
    /\ ~framebufferResized
    /\ \E i \in CallsOf("vkQueuePresentKHR") :
          /\ calls[i].res = VK_SUCCESS
          /\ i < Len(calls) /\ calls[i + 1].op = "recreateSwapChain"

IsSwapChainHook(c) == c.op \in {"onSwapChainReady", "onSwapChainAboutToBeDestroyed"}
SwapChainHookCalls == SelectSeq(calls, IsSwapChainHook)
BuildingOrTearingDown ==
    {"createImageViews", "onSwapChainReady", "vkDestroyImageView", "vkDestroySwapchainKHR"}

\* C12: onSwapChainReady and onSwapChainAboutToBeDestroyed alternate, starting
\* with onSwapChainReady: the number of onSwapChainReady calls not yet matched
\* by an onSwapChainAboutToBeDestroyed is 0 or 1, and no two calls of the
\* same hook follow each other; it is 1 whenever a built chain is in service
\* (onSwapChainReady after every build), 0 whenever there is no chain
\* (onSwapChainAboutToBeDestroyed before every teardown) and when run() has
\* returned; getCommandBuffers is only called while it is 1.
C12_SwapChainHooksAlternate ==
    /\ live["swapChainUserObjects"] \in {0, 1}
    /\ \A i \in 1 .. (Len(SwapChainHookCalls) - 1) :
          SwapChainHookCalls[i].op # SwapChainHookCalls[i + 1].op
    /\ (swapChain = "live" /\ pc \notin BuildingOrTearingDown \cup {"thrown"})
          => live["swapChainUserObjects"] = 1
    /\ swapChain # "live" => live["swapChainUserObjects"] = 0
    /\ pc = "done" => live["swapChainUserObjects"] = 0
    /\ pc = "getCommandBuffers"
          => live["swapChainUserObjects"] = 1 /\ swapChain = "live"
    /\ \A i \in CallsOf("getCommandBuffers") :
          \A j \in CallsOf("onSwapChainAboutToBeDestroyed") : i < j

\* A frame recorded its commands, then the chain was rebuilt around the
\* two hooks, and the loop goes on.
C12_Witness ==
    /\ pc = "mainLoop"
    /\ HasCall("getCommandBuffers")
    /\ Ops[Len(calls) - 1] = "onSwapChainReady"
    /\ HasCall("onSwapChainAboutToBeDestroyed")
    /\ live["swapChainUserObjects"] = 1

Succeeded(op) == \E i \in CallsOf(op) : calls[i].res = VK_SUCCESS
Before(op, i) == \E j \in CallsOf(op) : j < i
After(op, i) == \A j \in CallsOf(op) : i < j

C14_ObjectsCreatedOnceSwapChainExists ==
    /\ pc = "createVulkanObjects" => swapChain = "live"
    /\ \A i \in CallsOf("createVulkanObjects") :
          /\ Before("createSwapChain", i)
          /\ i = Len(calls)

ClaimedRecreationOrder ==
    <<"vkDeviceWaitIdle", "onSwapChainAboutToBeDestroyed", "vkDestroyImageView",
      "vkDestroySwapchainKHR", "createSwapChain", "createImageViews",
      "onSwapChainReady">>
NotAdvance(c) == c.op # "advance"

\* What recreateSwapChain, entered at entry i of the log, has called so far.
RecreationCalls(i) == SelectSeq(SubSeq(calls, i + 1, Len(calls)), NotAdvance)

\* C15: the calls of a recreateSwapChain are, in this order, vkDeviceWaitIdle,
\* onSwapChainAboutToBeDestroyed, the destruction of the image views, the
\* destruction of the chain, createSwapChain, createImageViews,
\* onSwapChainReady: all seven once it has returned, and the first five or
\* six when it is left by the exception of a failed createSwapChain or
\* createImageViews; views and chain are only destroyed (in a recreation and
\* in cleanup) when the GPU has completed all submitted work.
C15_RecreationOrder ==
    /\ \A i \in CallsOf("recreateSwapChain") :
          LET R == RecreationCalls(i)
          IN  /\ Len(R) <= Len(ClaimedRecreationOrder)
              /\ \A k \in DOMAIN R : R[k].op = ClaimedRecreationOrder[k]
              /\ pc \notin RecreatePcs \cup {"thrown"} =>
                    /\ Len(R) = Len(ClaimedRecreationOrder)
                    /\ swapChain = "live"
              /\ pc = "thrown" =>
                    /\ Len(R) \in {5, 6}
                    /\ R[Len(R)].res # VK_SUCCESS
    /\ pc \in {"vkDestroyImageView", "vkDestroySwapchainKHR"} => gpuQueue = <<>>
    /\ \A i \in CallsOf("vkDestroyImageView") \cup CallsOf("vkDestroySwapchainKHR") :
          /\ Before("vkDeviceWaitIdle", i)
          /\ \A j \in CallsOf("vkQueueSubmit") : j < i

\* A recreation triggered by the present of a submitted frame has gone
\* through its seven calls and returned.
C15_Witness ==
    /\ pc = "advance"
    /\ \E i \in CallsOf("recreateSwapChain") :
          /\ Len(RecreationCalls(i)) = Len(ClaimedRecreationOrder)
          /\ RecreationCalls(i)[7].op = "onSwapChainReady"
    /\ Succeeded("vkQueueSubmit")
    /\ swapChain = "live"

\* C16: the image views that exist are those of the chain that exists: none
\* before a chain is built or after it was destroyed; a build starts from no
\* view and ends with one view per image of the chain; when a teardown
\* reaches the destruction of the views, swapChainImageViews holds exactly
\* the views that exist, each once, and their chain still exists, so every
\* view is destroyed once, before its chain; run() returns with no view.
C16_ViewsLiveAndDieWithTheirChain ==
    /\ swapChain # "live" => liveViews = {}
    /\ pc = "createImageViews" => liveViews = {}
    /\ (swapChain = "live" /\ pc \notin {"createImageViews", "vkDestroySwapchainKHR", "thrown"})
          => /\ liveViews = 1 .. swapChainImages
             /\ Range(swapChainImageViews) = liveViews
    /\ pc = "vkDestroyImageView" =>
          /\ swapChain = "live"
          /\ Range(swapChainImageViews) = liveViews
          /\ Len(swapChainImageViews) = Cardinality(liveViews)
    /\ pc = "vkDestroySwapchainKHR" => liveViews = {} /\ swapChain = "live"
    /\ pc = "done" => liveViews = {} /\ swapChain = "destroyed"

\* In a recreation, the views are destroyed and their chain is about to be.
C16_Witness ==
    /\ pc = "vkDestroySwapchainKHR"
    /\ fn = "mainLoop"
    /\ liveViews = {}
    /\ Len(swapChainImageViews) = 2
    /\ HasCall("vkDestroyImageView")

ClaimedShutdownOrder ==
    <<"vkDeviceWaitIdle",
      "onSwapChainAboutToBeDestroyed", "vkDestroyImageView", "vkDestroySwapchainKHR",
      "destroyVulkanObjects", "destroySyncObjects", "vkDestroyDevice",
      "vkDestroyDebugUtilsMessengerEXT", "vkDestroySurfaceKHR", "vkDestroyInstance",
      "glfwDestroyWindow">>

Exists(o) ==
    CASE o = "swapChain" -> swapChain = "live"
      [] o = "imageViews" -> liveViews # {}
      [] OTHER -> live[o] > 0

\* <<a, b>>: a was created from b and is of no use without it.
DependsOn ==
    {<<"swapChainUserObjects", "imageViews">>, <<"swapChainUserObjects", "userObjects">>,
     <<"imageViews", "swapChain">>, <<"swapChain", "device">>, <<"swapChain", "surface">>,
     <<"userObjects", "device">>, <<"syncObjects", "device">>, <<"device", "instance">>,
     <<"debugMessenger", "instance">>, <<"surface", "instance">>, <<"surface", "window">>}

MissesAnExtension(device) == ~(config.deviceExtensions \subseteq device.extensions)
Inadequate(device) ==
    \/ device.presentationModes = <<>>
    \/ device.formats = <<>>
    \/ MissesAnExtension(device)
Picked == HasCall("pickPhysicalDevice")

\* C18: a device without any presentation mode, without any surface format
\* or without one of the required device extensions is never the selected
\* device, whatever else it offers; when every enumerated device is such a
\* device, pickPhysicalDevice selects none and throws.
C18_InadequateDeviceRejected ==
    /\ \A i \in DOMAIN devices : Inadequate(devices[i]) => physicalDevice # i
    /\ (Picked /\ \A i \in DOMAIN devices : Inadequate(devices[i]))
          => /\ pc = "thrown"
             /\ physicalDevice = 0

\* The only device lacks nothing but a presentation mode, and was rejected.
C18_Witness ==
    /\ Picked
    /\ devices = <<[GoodDevice EXCEPT !.presentationModes = <<>>]>>
    /\ error = "Failed to find a suitable GPU!"

TooOldFor(device, v) == device.apiVersion < v
RequiresFlagOf(v) == config.features \cap FeatureFlags[v] # {}

\* C19: under every configuration, a device whose API version is below a
\* tier (1.1, 1.2 or 1.3) in which the configuration requires a flag is never
\* the selected device, whatever flags the device reports as supported.
C19_TooOldDeviceRejected ==
    \A i \in DOMAIN devices :
       (\E v \in ApiVersions \ {VK_API_VERSION_1_0} :
           RequiresFlagOf(v) /\ TooOldFor(devices[i], v))
          => physicalDevice # i

HookOps ==
    {"createVulkanObjects", "destroyVulkanObjects", "onSwapChainReady",
     "onSwapChainAboutToBeDestroyed", "getNbCommandBuffers", "getCommandBuffers"}
Suitable(i) == isDeviceSuitable(devices[i], config)

\* C20: once pickPhysicalDevice has run, the selected device is the first
\* one of the enumeration that isDeviceSuitable accepts; when there is none
\* (no device enumerated, or none accepted) it has thrown, no device is
\* selected, no logical device exists and no user hook was called; and no
\* logical device is created, no hook called, before a device is selected.
C20_FirstSuitableDeviceOrThrow ==
    /\ Picked =>
          /\ physicalDevice # 0 =>
                /\ Suitable(physicalDevice)
                /\ \A j \in 1 .. (physicalDevice - 1) : ~Suitable(j)
          /\ (\E i \in DOMAIN devices : Suitable(i)) => physicalDevice # 0
          /\ physicalDevice = 0 =>
                /\ pc = "thrown"
                /\ error = (IF devices = <<>>
                            THEN "Failed to find GPUs with Vulkan support!"
                            ELSE "Failed to find a suitable GPU!")
    /\ physicalDevice = 0 =>
          /\ live["device"] = 0
          /\ live["userObjects"] = 0
          /\ \A i \in DOMAIN calls : calls[i].op \notin HookOps \cup {"createLogicalDevice"}

\* Of two suitable devices the first was selected, though the second is the
\* newer one, and the logical device was created from it.
C20_Witness ==
    /\ devices = <<OlderGoodDevice, GoodDevice>>
    /\ physicalDevice = 1
    /\ live["device"] = 1

HasQueueFamilies(device) ==
    /\ \E i \in DOMAIN device.queueFamilies : device.queueFamilies[i].graphics
    /\ \E i \in DOMAIN device.queueFamilies : device.queueFamilies[i].present
MeetsRequiredTiers(device) ==
    \A v \in ApiVersions :
       RequiresFlagOf(v) =>
          /\ ~TooOldFor(device, v)
          /\ (config.features \cap FeatureFlags[v]) \subseteq device.features
MeetsRequirements(device) ==
    ~Inadequate(device) /\ HasQueueFamilies(device) /\ MeetsRequiredTiers(device)

\* C26: a device that has the required extensions, both queue families, a
\* surface format and a presentation mode, and that is recent enough for and
\* supports the flags of every tier in which the configuration requires a
\* flag, is accepted, whatever its API version and the flags it reports in
\* the tiers without a required flag: once pickPhysicalDevice has run a
\* device is selected, and no such device was passed over.
C26_TierWithoutRequiredFlagNeverRejects ==
    \A i \in DOMAIN devices :
       (Picked /\ MeetsRequirements(devices[i]))
          => physicalDevice \in 1 .. i

\* A 1.0 device that reports nothing but samplerAnisotropy was selected by
\* an application designed for 1.3 that requires nothing else.
C26_Witness ==
    /\ Picked
    /\ config.vulkanVersion = VK_API_VERSION_1_3
    /\ config.features = {"samplerAnisotropy"}
    /\ Len(devices) = 1
    /\ devices[1].apiVersion = VK_API_VERSION_1_0
    /\ devices[1].features = {"samplerAnisotropy"}
    /\ physicalDevice = 1

RequestedFamilies == {queueCreateInfos[k].queueFamilyIndex : k \in DOMAIN queueCreateInfos}

\* C27: once the logical device exists, the queue-creation entries given to
\* vkCreateDevice name exactly the families of the graphics and of the
\* presentation queue, each once and with one queue: a single entry when the
\* two roles have the same family, two entries otherwise; and each queue is
\* of a family of the selected device that has its role.
C27_OneQueuePerUniqueFamily ==
    live["device"] > 0 =>
       /\ RequestedFamilies = {graphicsQueue, presentationQueue}
       /\ Len(queueCreateInfos) = (IF graphicsQueue = presentationQueue THEN 1 ELSE 2)
       /\ \A j, k \in DOMAIN queueCreateInfos :
             queueCreateInfos[j].queueFamilyIndex = queueCreateInfos[k].queueFamilyIndex
                => j = k
       /\ \A k \in DOMAIN queueCreateInfos : queueCreateInfos[k].queueCount = 1
       /\ devices[physicalDevice].queueFamilies[graphicsQueue + 1].graphics
       /\ devices[physicalDevice].queueFamilies[presentationQueue + 1].present

\* The logical device of a device whose only family does both.
C27_Witness ==
    /\ live["device"] > 0
    /\ devices[physicalDevice].queueFamilies = <<GraphicsAndPresent>>
    /\ queueCreateInfos = <<QueueCreateInfo(0)>>

Requested == swapChainCreateInfo # NoCreateInfo
SelectedDevice == devices[physicalDevice]

\* C28: the image count createSwapChain asks for is never below the
\* surface's minImageCount and, when the surface has a maximum
\* (maxImageCount > 0), never above it, for every minimum and maximum an
\* unsigned 32-bit integer can hold.
C28_ImageCountWithinLimits ==
    Requested =>
       /\ swapChainCreateInfo.minImageCount >= SelectedDevice.minImageCount
       /\ SelectedDevice.maxImageCount > 0
             => swapChainCreateInfo.minImageCount <= SelectedDevice.maxImageCount

AskTheApplication == Extent(UINT32_MAX, UINT32_MAX)
Within(v, lo, hi) == lo <= v /\ v <= hi
Nearest(v, lo, hi) == CHOOSE x \in lo .. hi : \A y \in lo .. hi : (x - v) * (x - v) <= (y - v) * (y - v)

\* C29: the extent createSwapChain asks for is the surface's current extent
\* when that is not the "ask the application" value, and otherwise the
\* framebuffer size with width and height each moved to the nearest value
\* between the surface's minimum and maximum extent; either way it lies
\* within these bounds, and it is what swapChainExtent holds once the chain
\* exists.
C29_ExtentWithinBounds ==
    Requested =>
       LET surface == SelectedDevice
           extent == swapChainCreateInfo.imageExtent
       IN  /\ surface.currentExtent # AskTheApplication
                 => extent = surface.currentExtent
           /\ surface.currentExtent = AskTheApplication
                 => /\ extent.width = Nearest(fbWidth, surface.minImageExtent.width,
                                              surface.maxImageExtent.width)
                    /\ extent.height = Nearest(fbHeight, surface.minImageExtent.height,
                                               surface.maxImageExtent.height)
           /\ Within(extent.width, surface.minImageExtent.width,
                     surface.maxImageExtent.width)
           /\ Within(extent.height, surface.minImageExtent.height,
                     surface.maxImageExtent.height)
           /\ swapChain = "live" => swapChainExtent = extent

\* A chain on a surface that leaves the extent to the application, whose
\* framebuffer is narrower than the minimum and higher than the maximum.
C29_Witness ==
    /\ swapChain = "live"
    /\ SelectedDevice.currentExtent = AskTheApplication
    /\ fbWidth < SelectedDevice.minImageExtent.width
    /\ fbHeight > SelectedDevice.maxImageExtent.height
    /\ swapChainExtent = Extent(SelectedDevice.minImageExtent.width,
                                SelectedDevice.maxImageExtent.height)

SupportedModes == Range(SelectedDevice.presentationModes)

\* C30: the presentation mode createSwapChain asks for is mailbox exactly
\* when the surface supports mailbox, FIFO otherwise, and in both cases a
\* mode the surface supports.
C30_MailboxIfSupportedElseFifo ==
    Requested =>
       /\ (swapChainCreateInfo.presentMode = VK_PRESENT_MODE_MAILBOX_KHR)
             <=> (VK_PRESENT_MODE_MAILBOX_KHR \in SupportedModes)
       /\ VK_PRESENT_MODE_MAILBOX_KHR \notin SupportedModes
             => swapChainCreateInfo.presentMode = VK_PRESENT_MODE_FIFO_KHR
       /\ swapChainCreateInfo.presentMode \in SupportedModes

\* Mailbox was chosen though FIFO comes first in the list.
C30_Witness ==
    /\ swapChain = "live"
    /\ SelectedDevice.presentationModes =
          <<VK_PRESENT_MODE_FIFO_KHR, VK_PRESENT_MODE_MAILBOX_KHR>>
    /\ swapChainCreateInfo.presentMode = VK_PRESENT_MODE_MAILBOX_KHR

C25_ViewFormatIsChainFormat ==
    (swapChain = "live" /\ liveViews # {})
       => imageViewFormat = swapChainCreateInfo.imageFormat

IdlePcs == {"mainLoop", "glfwPollEvents", "getNbCommandBuffers"}
BeforePresentPcs == {"vkWaitForFences", "vkAcquireNextImageKHR", "vkResetFences",
                     "getCommandBuffers", "vkQueueSubmit"} \cup RecreatePcs

\* C24: a step of a loop iteration in which getNbCommandBuffers returns 0
\* keeps a set framebufferResized flag set, leaves the swap chain alone and
\* does not enter recreateSwapChain, however many such iterations follow
\* one another; once frames are drawn again the flag stays set through every
\* step before a present (a recreation caused by an out-of-date acquire
\* included), and the first present reached clears it and enters
\* recreateSwapChain, whatever vkQueuePresentKHR returned.
C24_IdleResizeWaitsForNextPresent ==
    [][/\ (pc \in IdlePcs /\ (pc = "getNbCommandBuffers" => nbCommandBuffers' = 0))
             => /\ framebufferResized => framebufferResized'
                /\ pc' \in IdlePcs \cup {"mainLoopWaitIdle"}
                /\ swapChain' = swapChain
       /\ (pc \in BeforePresentPcs /\ framebufferResized) => framebufferResized'
       /\ (pc = "vkQueuePresentKHR" /\ framebufferResized /\ pc' # pc)
             => /\ ~framebufferResized'
                /\ rcCaller' = "vkQueuePresentKHR"
                /\ pc' = "glfwGetFramebufferSize"]_vars

\* An iteration begins after an idle one, the flag still set and the swap
\* chain still the one the resize found.
C24_Witness ==
    /\ pc = "glfwPollEvents"
    /\ nbCommandBuffers = 0
    /\ framebufferResized
    /\ swapChain = "live"
    /\ ~HasCall("recreateSwapChain")

HelperExited == pc \in {"createVulkanObjects", "thrown"} /\ helperCall # NoHelperCall

\* C22: when a one-shot helper has been left, by return or by exception, no
\* command buffer it obtained remains allocated, and its command buffer was
\* freed.
C22_OneShotBufferFreedOnEveryExit ==
    HelperExited =>
       /\ allocatedCommandBuffers = 0
       /\ commandBuffer = "freed"

RecognisedTransitions ==
    {<<VK_IMAGE_LAYOUT_UNDEFINED, VK_IMAGE_LAYOUT_TRANSFER_DST_OPTIMAL>>,
     <<VK_IMAGE_LAYOUT_TRANSFER_DST_OPTIMAL, VK_IMAGE_LAYOUT_SHADER_READ_ONLY_OPTIMAL>>}
Transitioned ==
    /\ helperCall.name = "transitionImageLayout"
    /\ pc \in {"endSingleTimeCommands", "createVulkanObjects", "thrown"}
BarriersRecorded == {i \in DOMAIN recorded : recorded[i].cmd = "vkCmdPipelineBarrier"}

\* C23: once recordTransitionImageLayoutCommand has run, for the pairs
\* (undefined, transfer destination) and (transfer destination, shader read
\* only) exactly one pipeline barrier is recorded, from the old to the new
\* layout, and nothing is thrown; for every other pair the exception
\* "Unsupported layout transition!" was thrown and no barrier is recorded.
C23_BarrierForRecognisedPairsOnly ==
    Transitioned =>
       IF <<helperCall.oldLayout, helperCall.newLayout>> \in RecognisedTransitions
       THEN /\ pc # "thrown"
            /\ Cardinality(BarriersRecorded) = 1
            /\ recorded = <<Barrier(helperCall.oldLayout, helperCall.newLayout)>>
       ELSE /\ pc = "thrown"
            /\ error = "Unsupported layout transition!"
            /\ BarriersRecorded = {}

\* The transition from transfer destination to shader read only has been
\* recorded and executed.
C23_Witness ==
    /\ helperCall.name = "transitionImageLayout"
    /\ helperCall.oldLayout = VK_IMAGE_LAYOUT_TRANSFER_DST_OPTIMAL
    /\ helperCall.newLayout = VK_IMAGE_LAYOUT_SHADER_READ_ONLY_OPTIMAL
    /\ pc = "createVulkanObjects"
    /\ Cardinality(BarriersRecorded) = 1

\* C31: the swap chain is requested with the concurrent sharing mode and the
\* two families, graphics then presentation, exactly when the graphics and
\* the presentation queue are of different families, and with the exclusive
\* mode otherwise.
C31_ConcurrentIffFamiliesDiffer ==
    Requested =>
       IF graphicsQueue # presentationQueue
       THEN /\ swapChainCreateInfo.imageSharingMode = VK_SHARING_MODE_CONCURRENT
            /\ swapChainCreateInfo.queueFamilyIndexCount = 2
            /\ swapChainCreateInfo.pQueueFamilyIndices = <<graphicsQueue, presentationQueue>>
       ELSE swapChainCreateInfo.imageSharingMode = VK_SHARING_MODE_EXCLUSIVE

\* A chain requested for a device whose presentation family comes before its
\* graphics family.
C31_Witness ==
    /\ Requested
    /\ swapChain = "live"
    /\ presentationQueue < graphicsQueue
    /\ swapChainCreateInfo.imageSharingMode = VK_SHARING_MODE_CONCURRENT

HasFamilyWith(device, capable(_)) ==
    \E k \in DOMAIN device.queueFamilies : capable(device.queueFamilies[k])
IsGraphics(family) == family.graphics
IsPresent(family) == family.present
AssignedTo(device, indices, role, capable(_)) ==
    role \in DOMAIN indices =>
       /\ indices[role] \in 0 .. Len(device.queueFamilies) - 1
       /\ capable(device.queueFamilies[indices[role] + 1])

\* C32: once pickPhysicalDevice has examined the devices, for every device
\* the index map of findQueueFamilies is complete exactly when the device
\* has a graphics family and a presentation family, every index in it is that
\* of a family with the role's capability, and the queues of the selected
\* device are of families with their capability.
C32_CompleteIffBothRolesExist ==
    HasCall("pickPhysicalDevice") =>
       /\ \A i \in DOMAIN devices :
             LET indices == findQueueFamilies(devices[i])
             IN  /\ isComplete(indices) <=>
                       /\ HasFamilyWith(devices[i], IsGraphics)
                       /\ HasFamilyWith(devices[i], IsPresent)
                 /\ AssignedTo(devices[i], indices, GRAPHICS_QUEUE_FAMILY, IsGraphics)
                 /\ AssignedTo(devices[i], indices, PRESENTATION_QUEUE_FAMILY, IsPresent)
       /\ physicalDevice # 0 => isComplete(findQueueFamilies(devices[physicalDevice]))
       /\ graphicsQueue # -1 =>
             /\ devices[physicalDevice].queueFamilies[graphicsQueue + 1].graphics
             /\ devices[physicalDevice].queueFamilies[presentationQueue + 1].present

\* Both queues were retrieved from the second family of a device whose first
\* family has one of the capabilities only.
C32_Witness ==
    /\ graphicsQueue = 1
    /\ presentationQueue = 1
    /\ Len(devices[physicalDevice].queueFamilies) = 2

Allocating == allocInfo # NoAllocInfo
Candidates ==
    {i \in 0 .. Len(allocInfo.memoryTypes) - 1 :
        /\ (allocInfo.memoryTypeBits \div (2 ^ i)) % 2 = 1
        /\ allocInfo.properties \subseteq allocInfo.memoryTypes[i + 1]}
NoSuitableType == pc = "thrown" /\ error = "Failed to find suitable memory type!"

\* C33: once createBuffer has called findMemoryType, the index it put in
\* allocInfo is the lowest index whose bit is set in the filter and whose
\* memory type has every requested property, and "Failed to find suitable
\* memory type!" was thrown exactly when there is no such index.
C33_LowestMatchingTypeOrThrow ==
    Allocating =>
       IF Candidates = {} THEN NoSuitableType
       ELSE /\ ~NoSuitableType
            /\ allocInfo.memoryTypeIndex \in Candidates
            /\ \A j \in Candidates : allocInfo.memoryTypeIndex <= j

\* A buffer got the second memory type although the first has the requested
\* properties too: the filter excludes the first.
C33_Witness ==
    /\ Allocating
    /\ pc = "createVulkanObjects"
    /\ allocInfo.memoryTypeIndex = 1
    /\ allocInfo.properties # {}
    /\ allocInfo.properties \subseteq allocInfo.memoryTypes[1]

\* C34: while drawFrame runs, and so whenever getCommandBuffers is about to
\* be called or has been called in the iteration, commandBufferList has as
\* many entries as getNbCommandBuffers returned in this iteration, and that
\* is more than none.
C34_ListSizedBeforeDrawFrame ==
    (pc \in Range(DrawFrameOrder) \/ HasCall("getCommandBuffers")) =>
       /\ commandBufferList = nbCommandBuffers
       /\ nbCommandBuffers > 0

\* getCommandBuffers is about to receive a list of one entry, for the second
\* slot.
C34_Witness ==
    /\ pc = "getCommandBuffers"
    /\ commandBufferList = 1
    /\ currentFrame = 1

\* C35: currentFrame is always a slot number, and a step changes it only
\* when it is the last step of a drawFrame call whose present call was made
\* and did not throw, and then to the next slot: the steps of idle
\* iterations, of frames left at a stale acquire and of recreateSwapChain
\* leave it unchanged.
C35_CurrentFrameAdvancesOnlyAfterPresent ==
    /\ [](currentFrame \in Slots)
    /\ [][currentFrame' # currentFrame =>
            /\ pc = "advance"
            /\ HasCall("vkQueuePresentKHR")
            /\ error' = ""
            /\ pc' = "mainLoop"
            /\ currentFrame' = (currentFrame + 1) % MAX_NB_FRAMES_IN_FLIGHT]_vars

\* The second slot's frame was presented, the chain was recreated for it, and
\* currentFrame is back at the first slot.
C35_Witness ==
    /\ pc = "mainLoop"
    /\ currentFrame = 0
    /\ HasCall("advance")
    /\ HasCall("recreateSwapChain")

InStaleAcquireRecreation == pc \in RecreatePcs /\ rcCaller = "vkAcquireNextImageKHR"

\* C36: a step sets framebufferResized only by running the resize callback
\* for a queued resize event, and clears it only at the present call, which
\* then starts a recreation; the acquire call and the steps of a recreation
\* entered from a stale acquire never clear it, so that a flag set before or
\* during that recreation is still set after it, and the next present call
\* made with the flag set starts a further recreation.
C36_FlagSetByCallbackClearedAtPresent ==
    [][/\ (~framebufferResized /\ framebufferResized') =>
             /\ pc \in {"glfwPollEvents", "glfwWaitEvents"}
             /\ "resize" \in events
       /\ (framebufferResized /\ ~framebufferResized') =>
             /\ pc = "vkQueuePresentKHR"
             /\ rcCaller' = "vkQueuePresentKHR"
       /\ (framebufferResized /\ (pc = "vkAcquireNextImageKHR" \/ InStaleAcquireRecreation))
             => framebufferResized'
       /\ (framebufferResized /\ pc = "vkQueuePresentKHR" /\ pc' # pc) =>
             /\ pc' = "glfwGetFramebufferSize"
             /\ rcCaller' = "vkQueuePresentKHR"]_vars

\* A recreation entered from a stale acquire is over, no frame was presented
\* in the iteration, and the flag set by a resize is still set.
C36_Witness ==
    /\ pc = "mainLoop"
    /\ rcCaller = "vkAcquireNextImageKHR"
    /\ HasCall("recreateSwapChain")
    /\ HasCall("onSwapChainReady")
    /\ ~HasCall("vkQueuePresentKHR")
    /\ framebufferResized

\* C37: once an exception has left run() the application does nothing more:
\* no hook or other call is made, no object and no image view is destroyed
\* (or created), and control stays where the exception left it; and at no
\* time has an object been destroyed more often than it was created.
C37_ErrorLeavesRunWithoutCleanup ==
    /\ [](error # "" => pc = "thrown")
    /\ [](\A o \in Objects : live[o] >= 0)
    /\ [][error # "" =>
            UNCHANGED <<pc, error, calls, live, liveViews, swapChainImageViews,
                        swapChain, fn>>]_vars

\* The creation of the new swap chain failed inside a recreation: the user's
\* objects and the device still exist, the old chain does not.
C37_Witness ==
    /\ pc = "thrown"
    /\ error = "Failed to create swap chain!"
    /\ HasCall("recreateSwapChain")
    /\ swapChain = "destroyed"
    /\ live["userObjects"] = 1
    /\ live["device"] = 1

\* C38: whenever drawFrame is about to pass the slot's image-available
\* semaphore to vkAcquireNextImageKHR, the semaphore is not signaled and no
\* submission that waits on it is left on the GPU.
C38_ImageAvailableFreeAtAcquire ==
    pc = "vkAcquireNextImageKHR" =>
       /\ ~imageAvailableSemaphores[currentFrame]
       /\ currentFrame \notin Range(gpuQueue)

\* The first slot is used again, after a stale acquire in it, while the
\* submission of the second slot still waits on that slot's semaphore.
C38_Witness ==
    /\ pc = "vkAcquireNextImageKHR"
    /\ currentFrame = 0
    /\ rcCaller = "vkAcquireNextImageKHR"
    /\ imageAvailableSemaphores[1]
    /\ 1 \in Range(gpuQueue)

\* C39: whenever drawFrame is about to submit work that signals the slot's
\* render-finished semaphore, no present that waits on that semaphore is
\* still queued, and the semaphore is not signaled.
C39_RenderFinishedConsumedBeforeResignal ==
    pc = "vkQueueSubmit" =>
       /\ currentFrame \notin Range(presentQueue)
       /\ ~renderFinishedSemaphores[currentFrame]

====
